---- MODULE Spec2Model ----
(***************************************************************************)
(* A model of the comic-translator stage pipeline:                         *)
(*   comic_translator/utils/stage_manager.py        (StageManager)         *)
(*   comic_translator/terminology/terminology_manager.py                   *)
(*   comic_translator/translation/text_reorder.py   (TextReorder)          *)
(*   comic_translator/translation/text_translator.py (TextTranslator)      *)
(*   comic_translator/core/five_stage_pipeline.py   (FiveStagePipeline)    *)
(*                                                                         *)
(* The detector, the OCR model and the Gemini client are the environment:  *)
(* every call to one of them takes its outcome (a value or an exception)   *)
(* from a small set.  The program is single threaded, so every public      *)
(* method is one atomic action.                                            *)
(***************************************************************************)
EXTENDS Integers, Sequences, FiniteSets, TLC

\* ------------------------------------------------------------------ bounds
\* images in a short batch folder (image names, in sorted order)
NumImages == 3
\* images in a long batch folder
LongBatch == 150
\* the detector returns at most this many text boxes for a page
MaxBoxes == 2
\* at most this many calls of the same stage method in a row
MaxRepeat == 2

Stages == 1..5

\* batch_process_folder keeps the last HISTORY_CAP history records
HISTORY_CAP == 100

\* ------------------------------------------------------------ basic values
\* A recognised text is a tuple of numbers; the empty tuple is the empty
\* string (falsy in Python).  An image is named by a tuple of numbers too.  Txt(img, i) is what the OCR model reads in box
\* i of image img; Tr(t) is the LLM's translation of t.
EmptyText == <<>>
Txt(img, i) == img \o <<i>>
Tr(t) == <<0>> \o t
ExtraText == <<9>>

Min(a, b) == IF a < b THEN a ELSE b
Max(a, b) == IF a < b THEN b ELSE a

\* dict.get(key, default)
Get(d, key, default) == IF key \in DOMAIN d THEN d[key] ELSE default

\* Python dict -> a function on a finite set of keys
EmptyDict == [k \in {} |-> 0]

\* ------------------------------------------------------------ StageManager
\* An image name (Path(image_path).stem) and a file name are tuples of
\* tokens.  The token 0 is the substring '_stage'; every other token of an
\* image name is a positive number.  Page k of a folder is the file 'k.jpg'.
Stem(image_path) == <<image_path>>

\* f"{image_name}_stage{stage}_{self.stage_names[stage]}.json"
FileName(image_name, stage) == image_name \o <<0, stage>>

\* What load_stage_result returns for a result file that does not exist.
NoEntry == [stage |-> 0]

\* The content of a result file that json.load cannot parse.
Corrupt == [stage |-> -1]

\* datetime.now().isoformat(): the value is irrelevant to the pipeline
Now == "ts"

Present(entry) == entry.stage # 0

\* What may happen to the file when save_stage_result writes it: it is
\* written; open() is refused and the file is left as it was; json.dump fails
\* after open() has truncated the file.
WriteOutcomes == {"ok", "refused", "torn"}

\* A variant without the cache lookup, which C3 must tell from
\* load_stage_result: nothing is ever found.
load_nothing(c, stage, img) == NoEntry

\* A variant that hands on whatever the file holds, which C14 must tell from
\* load_stage_result.
load_unchecked(c, stage, img) ==
    IF FileName(img, stage) \in DOMAIN c THEN c[FileName(img, stage)] ELSE NoEntry

\* load_stage_result: the stored dict; None (NoEntry) when the file does not
\* exist or cannot be read and parsed
load_stage_result(c, stage, img) ==
    LET filepath == FileName(img, stage)
    IN  IF filepath \notin DOMAIN c THEN NoEntry
        ELSE IF c[filepath] = Corrupt THEN NoEntry
        ELSE c[filepath]

\* stage_exists: load_stage_result(...) is not None
stage_exists(c, stage, img) == Present(load_stage_result(c, stage, img))

\* A variant that updates the stored dict instead of replacing it, which C22
\* must tell from save_stage_result.
save_merging(c, stage, img, data, wr) ==
    LET filepath == FileName(img, stage)
        old == IF filepath \in DOMAIN c THEN c[filepath] ELSE EmptyDict
        entry == [timestamp |-> "ts", stage |-> stage] @@ data @@ old
    IN  [cache |-> IF wr = "ok" THEN (filepath :> entry) @@ c
                   ELSE IF wr = "torn" THEN (filepath :> [stage |-> -1]) @@ c
                   ELSE c,
         raised |-> wr # "ok", write |-> wr]

\* save_stage_result: data['timestamp'], data['stage'] are set, the file is
\* overwritten; an error of open() or json.dump is not caught
save_stage_result(c, stage, img, data, wr) ==
    LET filepath == FileName(img, stage)
        entry == [timestamp |-> Now, stage |-> stage] @@ data
    IN  [cache |-> IF wr = "ok" THEN (filepath :> entry) @@ c
                   ELSE IF wr = "torn" THEN (filepath :> Corrupt) @@ c
                   ELSE c,
         raised |-> wr # "ok", write |-> wr]

\* A variant that unlinks every file of the stage whose name starts with the
\* image name, which C18 must tell from clear_stage_result.
clear_by_prefix(c, stage, img) ==
    LET hit(f) == /\ Len(f) >= Len(img) + 2
                  /\ SubSeq(f, 1, Len(img)) = img
                  /\ f[Len(f)] = stage
    IN  [cache |-> [f \in {g \in DOMAIN c : ~hit(g)} |-> c[f]], ret |-> TRUE]

\* clear_stage_result: unlink the file if it exists; True in both cases
clear_stage_result(c, stage, img) ==
    [cache |-> [f \in DOMAIN c \ {FileName(img, stage)} |-> c[f]], ret |-> TRUE]

RECURSIVE clear_stages_from(_, _, _, _)
clear_stages_from(c, img, stage, count) ==
    IF stage > 5 THEN [cache |-> c, ret |-> count]
    ELSE CHOOSE after \in {clear_stages_from(r.cache, img, stage + 1,
                                              IF r.ret THEN count + 1 ELSE count) :
                               r \in {clear_stage_result(c, stage, img)}} : TRUE

\* clear_all_stages: clear_stage_result for each of the five stages
clear_all_stages(c, img) == clear_stages_from(c, img, 1, 0)

\* list_results(): the names of the *.json files of the results directory
list_results(c) == DOMAIN c

\* '_stage' in file_name
HasStageToken(file_name) == \E k \in 1..Len(file_name) : file_name[k] = 0

\* file_name.split('_stage')[0]
SplitStage(file_name) ==
    LET k == CHOOSE j \in 1..Len(file_name) :
                 /\ file_name[j] = 0
                 /\ \A i \in 1..(j - 1) : file_name[i] # 0
    IN  SubSeq(file_name, 1, k - 1)

\* the loop of clear_cache() over the listed files
RECURSIVE clear_listed(_, _, _)
clear_listed(c, files, cleared_count) ==
    IF files = {} THEN [cache |-> c, ret |-> cleared_count]
    ELSE LET file_name == CHOOSE f \in files : TRUE
         IN  CHOOSE after \in
                 {clear_listed(r.cache, files \ {file_name}, cleared_count + r.ret) :
                     r \in {IF HasStageToken(file_name)
                            THEN clear_all_stages(c, SplitStage(file_name))
                            ELSE [cache |-> c, ret |-> 0]}} : TRUE

\* clear_cache(image_name): the stages of one image, or, without a name
\* (None or ''), of every image that list_results() shows a stage file of
clear_cache(c, image_name) ==
    IF image_name # <<>> THEN clear_all_stages(c, image_name)
    ELSE clear_listed(c, list_results(c), 0)

\* ------------------------------------------------------ TerminologyManager
Sources == {"s1", "s2"}
Targets == {"t1", "t2"}

\* terminology_dict.json does not exist
NoFile == [exists |-> FALSE, ja_to_zh |-> EmptyDict, total_terms |-> 0]

\* _create_new_dictionary: the manager's state is terminology_data (ja_to_zh
\* and metadata.total_terms) and the file it writes
NewTerminology ==
    [ja_to_zh |-> EmptyDict, total_terms |-> 0, file |-> NoFile]

\* A value the code treats as new_terminology: the structured path builds a
\* dict, the fallback path hands on the LLM's list of {japanese, chinese}.
DictTerms(m) == [shape |-> "dict", map |-> m, list |-> <<>>]
ListTerms(l) == [shape |-> "list", map |-> EmptyDict, list |-> l]

\* Python truthiness and len() of such a value
TermsLen(nt) ==
    IF nt.shape = "dict" THEN Cardinality(DOMAIN nt.map) ELSE Len(nt.list)

\* save_dictionary: metadata.total_terms is refreshed, then the whole
\* document is written; an I/O error is caught and reported as False
save_dictionary(tm, ioOk) ==
    LET n == Cardinality(DOMAIN tm.ja_to_zh)
    IN  IF ioOk
        THEN [tm |-> [tm EXCEPT !.total_terms = n,
                                !.file = [exists |-> TRUE,
                                          ja_to_zh |-> tm.ja_to_zh,
                                          total_terms |-> n]],
              ret |-> TRUE]
        ELSE [tm |-> [tm EXCEPT !.total_terms = n], ret |-> FALSE]

\* A last-writer-wins variant, which C8 must tell from add_term.
add_term_overwrite(tm, japanese, chinese) ==
    [tm |-> [tm EXCEPT !.ja_to_zh =
                (japanese :> chinese) @@ [k \in DOMAIN @ \ {japanese} |-> @[k]]],
     ret |-> japanese \notin DOMAIN tm.ja_to_zh]

\* add_term: an existing source is kept (False); a new one is inserted (True)
add_term(tm, japanese, chinese) ==
    IF japanese \in DOMAIN tm.ja_to_zh
    THEN [tm |-> tm, ret |-> FALSE]
    ELSE [tm |-> [tm EXCEPT !.ja_to_zh = (japanese :> chinese) @@ @],
          ret |-> TRUE]

RECURSIVE add_each(_, _, _, _)
add_each(tm, m, todo, added) ==
    IF todo = {} THEN [tm |-> tm, ret |-> added]
    ELSE LET japanese == CHOOSE k \in todo : TRUE
             r == add_term(tm, japanese, m[japanese])
         IN  add_each(r.tm, m, todo \ {japanese},
                      IF r.ret THEN added + 1 ELSE added)

\* A variant that saves whenever the batch is not empty, which C23 must tell
\* from update_terms.
update_terms_always_saving(tm, nt, ioOk) ==
    IF TermsLen(nt) = 0 THEN [tm |-> tm, ret |-> 0, raised |-> FALSE, saves |-> 0]
    ELSE IF nt.shape # "dict"
    THEN [tm |-> tm, ret |-> 0, raised |-> TRUE, saves |-> 0]
    ELSE LET r == add_each(tm, nt.map, DOMAIN nt.map, 0)
         IN  [tm |-> save_dictionary(r.tm, ioOk).tm, ret |-> r.ret,
              raised |-> FALSE, saves |-> 1]

\* update_terms: add_term for every item, one save if anything was added.
\* new_terminology.items() raises AttributeError for a non-empty list.
\* (ghost) saves: the number of save_dictionary calls
update_terms(tm, nt, ioOk) ==
    IF TermsLen(nt) = 0 THEN [tm |-> tm, ret |-> 0, raised |-> FALSE, saves |-> 0]
    ELSE IF nt.shape # "dict"
    THEN [tm |-> tm, ret |-> 0, raised |-> TRUE, saves |-> 0]
    ELSE LET r == add_each(tm, nt.map, DOMAIN nt.map, 0)
         IN  IF r.ret > 0
             THEN [tm |-> save_dictionary(r.tm, ioOk).tm, ret |-> r.ret,
                   raised |-> FALSE, saves |-> 1]
             ELSE [tm |-> r.tm, ret |-> r.ret, raised |-> FALSE, saves |-> 0]

\* remove_term: pop and save, or False
remove_term(tm, japanese, ioOk) ==
    IF japanese \in DOMAIN tm.ja_to_zh
    THEN LET rest == [k \in DOMAIN tm.ja_to_zh \ {japanese} |-> tm.ja_to_zh[k]]
         IN  [tm |-> save_dictionary([tm EXCEPT !.ja_to_zh = rest], ioOk).tm,
              ret |-> TRUE]
    ELSE [tm |-> tm, ret |-> FALSE]

\* get_all_terms: a copy of the mapping
get_all_terms(tm) == tm.ja_to_zh

\* -------------------------------------------------------------- TextReorder
\* What the Gemini client does on a reorder call: it raises, it answers with
\* JSON that has no 'reordered_texts' key, or it answers with a list.  The
\* list is the LLM's own: the input order kept, the input reversed, or empty.
ReorderOutcomes ==
    {[kind |-> "raise", shape |-> "keep"],
     [kind |-> "malformed", shape |-> "keep"],
     [kind |-> "ok", shape |-> "keep"],
     [kind |-> "ok", shape |-> "reverse"],
     [kind |-> "ok", shape |-> "empty"]}

\* The schema of the structured call fixes the types of an answer, not its
\* values: the LLM may also give every item the new_order 0.
ReorderAnswers ==
    ReorderOutcomes \cup {[kind |-> "ok", shape |-> "same_order"]}

\* Nor does the schema keep a text from being the empty string: the LLM may
\* hand back the first item without its text.
ReorderBlanks == {[kind |-> "ok", shape |-> "blank_first"]}

\* item['box_index'], item['bbox'], item['text'] raise KeyError otherwise
HasReorderKeys(item) == {"box_index", "bbox", "text"} \subseteq DOMAIN item

PrepRaises(extracted_texts) ==
    \E i \in 1..Len(extracted_texts) : ~HasReorderKeys(extracted_texts[i])

\* texts_for_reorder: index, bbox and text of every extracted item
texts_for_reorder(extracted_texts) ==
    [i \in 1..Len(extracted_texts) |->
        [index |-> extracted_texts[i].box_index,
         bbox |-> extracted_texts[i].bbox,
         text |-> extracted_texts[i].text]]

\* the list in the LLM's answer, for the texts it was shown
ReorderResponse(shown, shape) ==
    LET n == Len(shown)
    IN  IF shape = "empty" THEN <<>>
        ELSE [i \in 1..n |->
                LET src == IF shape = "reverse" THEN shown[n + 1 - i]
                           ELSE shown[i]
                IN  [original_index |-> src.index,
                     new_order |-> IF shape = "same_order" THEN 0 ELSE i - 1,
                     bbox |-> src.bbox,
                     text |-> IF shape = "blank_first" /\ i = 1 THEN EmptyText
                              ELSE src.text]]

\* A variant that hands the items back in reverse, which C11 must tell from
\* _fallback_order.
fallback_reversed(extracted_texts) ==
    [i \in 1..Len(extracted_texts) |->
        LET src == extracted_texts[Len(extracted_texts) + 1 - i]
        IN  [original_index |-> src.box_index, new_order |-> i - 1,
             bbox |-> src.bbox, text |-> src.text]]

\* _fallback_order: the input order
fallback_order(extracted_texts) ==
    [i \in 1..Len(extracted_texts) |->
        [original_index |-> extracted_texts[i].box_index, new_order |-> i - 1,
         bbox |-> extracted_texts[i].bbox, text |-> extracted_texts[i].text]]

\* reorder_texts_with_image: [] for no input; the prompt is built outside
\* the try (KeyError propagates); an LLM failure inside the try (it raised,
\* or result['reordered_texts'] is missing) falls back to the input order
reorder_texts_with_image(extracted_texts, ro) ==
    IF extracted_texts = <<>>
    THEN [raised |-> FALSE, list |-> <<>>, llm |-> 0, fellBack |-> FALSE]
    ELSE IF PrepRaises(extracted_texts)
    THEN [raised |-> TRUE, list |-> <<>>, llm |-> 0, fellBack |-> FALSE]
    ELSE IF ro.kind = "ok"
    THEN [raised |-> FALSE,
          list |-> ReorderResponse(texts_for_reorder(extracted_texts), ro.shape),
          llm |-> 1, fellBack |-> FALSE]
    ELSE [raised |-> FALSE, list |-> fallback_order(extracted_texts),
          llm |-> 1, fellBack |-> TRUE]

\* reorder_texts: the same with generate_json and no image
reorder_texts(extracted_texts, rj) ==
    IF extracted_texts = <<>>
    THEN [raised |-> FALSE, list |-> <<>>, llm |-> 0, fellBack |-> FALSE]
    ELSE IF PrepRaises(extracted_texts)
    THEN [raised |-> TRUE, list |-> <<>>, llm |-> 0, fellBack |-> FALSE]
    ELSE IF rj.kind = "ok"
    THEN [raised |-> FALSE,
          list |-> ReorderResponse(texts_for_reorder(extracted_texts), rj.shape),
          llm |-> 1, fellBack |-> FALSE]
    ELSE [raised |-> FALSE, list |-> fallback_order(extracted_texts),
          llm |-> 1, fellBack |-> TRUE]

\* reorder_with_metadata: reorder_texts and its counts
reorder_with_metadata(extracted_texts, rj) ==
    LET r == reorder_texts(extracted_texts, rj)
    IN  [raised |-> r.raised, llm |-> r.llm,
         result |-> [total_texts |-> Len(extracted_texts),
                     reordered_count |-> Len(r.list),
                     reordered_texts |-> r.list,
                     success |-> Len(r.list) > 0]]

\* ----------------------------------------------------------- TextTranslator
\* a new_terminology list the LLM may answer with
\* What the Gemini client does on a translation request.
\*   structured: the structured call answers with Len(texts) + delta
\*               translations, every text_direction being dir
\*   fb_raise:   the structured call raises, and so does the fallback call
\*   fb_json:    the structured call raises; the fallback call answers with
\*               JSON holding one translation per text (and terms)
\*   fb_lines:   the structured call raises; the fallback answer is parsed
\*               line by line
OneTerm == <<[japanese |-> "s1", chinese |-> "t1"]>>

TransOutcomes ==
    {[kind |-> "structured", delta |-> 0, dir |-> "horizontal", terms |-> <<>>],
     [kind |-> "structured", delta |-> 0, dir |-> "vertical", terms |-> OneTerm],
     [kind |-> "structured", delta |-> -1, dir |-> "horizontal", terms |-> <<>>],
     [kind |-> "structured", delta |-> 1, dir |-> "horizontal", terms |-> <<>>],
     [kind |-> "fb_raise", delta |-> 0, dir |-> "horizontal", terms |-> <<>>],
     [kind |-> "fb_lines", delta |-> 0, dir |-> "horizontal", terms |-> <<>>],
     [kind |-> "fb_json", delta |-> 0, dir |-> "horizontal", terms |-> OneTerm]}

\* the 'translations' array of a structured answer
StructuredTranslations(texts, tr) ==
    [k \in 1..Max(0, Len(texts) + tr.delta) |->
        LET original == IF k <= Len(texts) THEN texts[k] ELSE ExtraText
        IN  [original |-> original, translated |-> Tr(original),
             text_direction |-> tr.dir, bubble_type |-> "textured",
             estimated_font_size |-> 20]]

\* terminology_dict[term['japanese']] = term['chinese'], in list order
DictFromList(terms) ==
    [j \in {terms[i].japanese : i \in 1..Len(terms)} |->
        terms[CHOOSE i \in 1..Len(terms) :
                /\ terms[i].japanese = j
                /\ \A k \in (i + 1)..Len(terms) : terms[k].japanese # j].chinese]

\* _create_fallback_translations: translated = original
create_fallback_translations(texts) ==
    [k \in 1..Len(texts) |->
        [original |-> texts[k], translated |-> texts[k],
         text_direction |-> "horizontal", bubble_type |-> "pure_white",
         estimated_font_size |-> 16]]

\* what both parsers of the fallback answer return: {original, translated}
ParsedTranslations(texts) ==
    [k \in 1..Len(texts) |-> [original |-> texts[k], translated |-> Tr(texts[k])]]

\* _fallback_translation (texts is not empty where it is called)
fallback_translation(texts, tr) ==
    IF texts = <<>>
    THEN [translated_texts |-> <<>>, new_terminology |-> ListTerms(<<>>),
          success |-> FALSE]
    ELSE IF tr.kind = "fb_json"
    THEN [translated_texts |-> ParsedTranslations(texts),
          new_terminology |-> ListTerms(tr.terms), success |-> TRUE]
    ELSE IF tr.kind = "fb_lines"
    THEN [translated_texts |-> ParsedTranslations(texts),
          new_terminology |-> ListTerms(<<>>), success |-> TRUE]
    ELSE [translated_texts |-> create_fallback_translations(texts),
          new_terminology |-> DictTerms(EmptyDict), success |-> FALSE,
          error |-> "exception"]

\* translate_texts_with_history: no count check on the structured answer
translate_texts_with_history(texts, terminology_dict, translation_history, tr) ==
    IF texts = <<>>
    THEN [translated_texts |-> <<>>, new_terminology |-> DictTerms(EmptyDict),
          success |-> FALSE]
    ELSE IF tr.kind = "structured"
    THEN [translated_texts |-> StructuredTranslations(texts, tr),
          new_terminology |-> DictTerms(DictFromList(tr.terms)),
          success |-> TRUE]
    ELSE fallback_translation(texts, tr)

\* the number of translations in the adapter's answer
AdapterCount(result) == Len(result.translated_texts)

\* The Gemini client methods translate_texts_with_history calls for an image
\* that exists, in order: the structured call with the image and, when that
\* raises, the plain call of _fallback_translation, again with the image.
translation_calls(texts, tr) ==
    IF texts = <<>> THEN <<>>
    ELSE IF tr.kind = "structured"
    THEN <<"generate_structured_content_with_image">>
    ELSE <<"generate_structured_content_with_image", "generate_content_with_image">>

\* translation_history[-n:]
recent_history(translation_history, n) ==
    SubSeq(translation_history, Max(1, Len(translation_history) - n + 1),
           Len(translation_history))

\* the prompt of the structured call shows the last PROMPT_HISTORY records,
\* the prompt of the fallback call the last FALLBACK_HISTORY
PROMPT_HISTORY == 10
FALLBACK_HISTORY == 20

\* _create_enhanced_translation_prompt: (ghost) the history records its
\* history_context lists, in order
create_enhanced_translation_prompt(translation_history) ==
    [prompt |-> "enhanced",
     shown |-> recent_history(translation_history, PROMPT_HISTORY)]

\* A variant that lists the oldest records, which C25 must tell from
\* _prepare_translation_prompt_with_history.
prepare_prompt_with_oldest(translation_history) ==
    [prompt |-> "with_history",
     shown |-> SubSeq(translation_history, 1,
                      Min(Len(translation_history), 20))]

\* _prepare_translation_prompt_with_history: (ghost) the history records its
\* history_section lists, in order: those of the last FALLBACK_HISTORY that
\* are dicts with 'original' and 'translated'
prepare_translation_prompt_with_history(translation_history) ==
    LET complete(item) == {"original", "translated"} \subseteq DOMAIN item
    IN  [prompt |-> "with_history",
         shown |-> SelectSeq(recent_history(translation_history, FALLBACK_HISTORY),
                             complete)]

\* The prompts translate_texts_with_history builds, in order: the enhanced
\* prompt (before the try) and, when the structured call raises, the prompt
\* of _fallback_translation.  The image decides which client method gets
\* the prompt, not what the prompt shows of the history.
translation_prompts(texts, translation_history, tr) ==
    IF texts = <<>> THEN <<>>
    ELSE IF tr.kind = "structured"
    THEN <<create_enhanced_translation_prompt(translation_history)>>
    ELSE <<create_enhanced_translation_prompt(translation_history),
           prepare_translation_prompt_with_history(translation_history)>>

\* ------------------------------------------------------- ComicTextDetector
\* The detector model returns at most MaxBlocks blocks.
MaxBlocks == 2

\* The blocks the detector model may return: xyxy is <<x1, y1, x2, y2>>, a
\* block is 8 pixels wide and high, or 4 pixels (too small) in one direction
Blocks ==
    {[xyxy |-> <<x1, y1, x1 + size[1], y1 + size[2]>>, angle |-> av[1],
      vertical |-> av[2]] :
        x1 \in {-2, 10}, y1 \in {0, 10},
        size \in {<<8, 8>>, <<4, 8>>, <<8, 4>>},
        av \in {<<0, FALSE>>, <<0, TRUE>>, <<15, FALSE>>}}

BlockLists == UNION {[1..n -> Blocks] : n \in 0..MaxBlocks}

\* the blocks that are kept, in the order of blk_list (the fields xyxy,
\* font_size and lines of block_info are left out)
block_infos(blk_list) ==
    LET info(i) ==
            LET x1 == blk_list[i].xyxy[1]
                y1 == blk_list[i].xyxy[2]
                x2 == blk_list[i].xyxy[3]
                y2 == blk_list[i].xyxy[4]
            IN  [block_index |-> i - 1,
                 bbox |-> <<Max(0, x1), Max(0, y1), x2 - x1, y2 - y1>>,
                 angle |-> blk_list[i].angle,
                 vertical |-> blk_list[i].vertical]
        all == [i \in 1..Len(blk_list) |-> info(i)]
        bigEnough(b) == b.bbox[3] >= 5 /\ b.bbox[4] >= 5
    IN  SelectSeq(all, bigEnough)

\* key=lambda block: (block['bbox'][1], block['bbox'][0]), compared as
\* Python compares tuples
position_key(bbox) == <<bbox[2], bbox[1]>>

KeyLess(a, b) == a[1] < b[1] \/ (a[1] = b[1] /\ a[2] < b[2])

\* text_blocks.sort(key=...): stable, ascending
RECURSIVE sort_blocks(_)
sort_blocks(blocks) ==
    IF blocks = <<>> THEN <<>>
    ELSE LET front == sort_blocks(SubSeq(blocks, 1, Len(blocks) - 1))
             b == blocks[Len(blocks)]
             k == Cardinality({j \in 1..Len(front) :
                                  ~KeyLess(position_key(b.bbox),
                                           position_key(front[j].bbox))})
         IN  SubSeq(front, 1, k) \o <<b>> \o SubSeq(front, k + 1, Len(front))

\* detect_with_metadata (image_size, source_image and config are left out)
detect_with_metadata(blk_list) ==
    LET text_blocks == sort_blocks(block_infos(blk_list))
    IN  [text_boxes |-> [i \in 1..Len(text_blocks) |-> text_blocks[i].bbox],
         text_blocks |-> text_blocks,
         total_boxes |-> Len(text_blocks)]

\* detect: the same filter and the same sort on the plain boxes
detect(blk_list) ==
    LET sorted == sort_blocks(block_infos(blk_list))
    IN  [i \in 1..Len(sorted) |-> sorted[i].bbox]

\* -------------------------------------------- detection and OCR adapters
\* detect_with_metadata raises (unreadable image, model error) or returns n
\* boxes; box i has bbox i.  An outcome with a field blk_list gives the blocks
\* the detector model found, and the result is computed from them.
DetOutcomes ==
    {[raises |-> TRUE, n |-> 0]} \cup {[raises |-> FALSE, n |-> n] : n \in 0..MaxBoxes}

DetectorResult(det) ==
    IF "blk_list" \in DOMAIN det THEN detect_with_metadata(det.blk_list)
    ELSE [text_boxes |-> [i \in 1..det.n |-> i], total_boxes |-> det.n]

\* extract_from_boxes raises, or reads every box; 'empty' are the boxes in
\* which the OCR model finds no text
OcrOutcomes ==
    {[raises |-> TRUE, empty |-> {}]}
    \cup {[raises |-> FALSE, empty |-> e] : e \in {{}, {1}, 1..MaxBoxes}}

\* RotationCorrector.should_rotate(angle, threshold)
should_rotate(angle, threshold) ==
    (IF angle < 0 THEN 0 - angle ELSE angle) > threshold

\* The loop of extract_from_boxes over text_blocks: the block at position i
\* is read (extract_region gives rendered_bbox = bbox, and was_rotated for
\* an angle above 0.1 degrees; angles are whole degrees here); blocks with
\* no text are left out ('confidence', a constant, is left out)
extract_from_blocks(img, text_blocks, ocr) ==
    LET all == [i \in 1..Len(text_blocks) |->
                  [box_index |-> Get(text_blocks[i], "block_index", 0),
                   bbox |-> text_blocks[i].bbox,
                   rendered_bbox |-> text_blocks[i].bbox,
                   text |-> IF i \in ocr.empty THEN EmptyText ELSE Txt(img, i),
                   angle |-> Get(text_blocks[i], "angle", 0),
                   vertical |-> Get(text_blocks[i], "vertical", FALSE),
                   was_rotated |-> should_rotate(Get(text_blocks[i], "angle", 0), 0)]]
        hasText(item) == item.text # EmptyText
    IN  SelectSeq(all, hasText)

\* extract_from_boxes(image_path, text_boxes) with text_blocks=None: block
\* i gets block_index i, angle 0.0 and vertical False
extract_from_boxes(img, text_boxes, ocr) ==
    extract_from_blocks(img,
                        [i \in 1..Len(text_boxes) |->
                            [block_index |-> i - 1, bbox |-> text_boxes[i],
                             angle |-> 0, vertical |-> FALSE]],
                        ocr)

\* ----------------------------------------------------------- FiveStagePipeline
\* What a stage method did: the cache after it, whether it raised, what it
\* returned, how often it invoked its adapter, and (ghost) what became of
\* its save_stage_result call ("none": it made none).
StageRet(c, raised, ret, invoked) ==
    [cache |-> c, raised |-> raised, ret |-> ret, invoked |-> invoked,
     write |-> "none"]

\* A stage method that ends with save_stage_result (w is what that did) and
\* 'return ret': the exception of a failed write leaves the method.
Saved(w, ret, invoked) ==
    [cache |-> w.cache, raised |-> w.raised, ret |-> ret, invoked |-> invoked,
     write |-> w.write]

\* A variant that stores an empty result when the detector raises, which C36
\* must tell from stage1_detect_text_boxes.
stage1_saving_on_raise(c, img, det, wr) ==
    LET cached == load_stage_result(c, 1, img)
        nothing == [text_boxes |-> <<>>, total_boxes |-> 0]
    IN  IF Present(cached)
        THEN [cache |-> c, raised |-> FALSE, ret |-> cached.text_boxes,
              invoked |-> 0, write |-> "none"]
        ELSE IF det.raises
        THEN [cache |-> save_stage_result(c, 1, img, nothing, wr).cache,
              raised |-> TRUE, ret |-> <<>>, invoked |-> 1, write |-> "none"]
        ELSE LET result == DetectorResult(det)
                 w == save_stage_result(c, 1, img, result, wr)
             IN  [cache |-> w.cache, raised |-> w.raised, ret |-> result.text_boxes,
                  invoked |-> 1, write |-> w.write]

\* stage1_detect_text_boxes
stage1_detect_text_boxes(c, img, det, wr) ==
    LET cached == load_stage_result(c, 1, img)
    IN  IF Present(cached) THEN StageRet(c, FALSE, cached.text_boxes, 0)
        ELSE IF det.raises THEN StageRet(c, TRUE, <<>>, 1)
        ELSE LET result == DetectorResult(det)
             IN  Saved(save_stage_result(c, 1, img, result, wr),
                       result.text_boxes, 1)

\* A variant that never looks into the cache, which C21 must tell from
\* stage2_ocr_extraction.
stage2_uncached(c, img, text_boxes, ocr, wr) ==
    IF ocr.raises
    THEN [cache |-> c, raised |-> TRUE, ret |-> <<>>, invoked |-> 1,
          write |-> "none"]
    ELSE LET extracted_texts == extract_from_boxes(img, text_boxes, ocr)
             w == save_stage_result(c, 2, img,
                                    [total_boxes |-> Len(text_boxes),
                                     successful_extractions |-> Len(extracted_texts),
                                     extracted_texts |-> extracted_texts], wr)
         IN  [cache |-> w.cache, raised |-> w.raised, ret |-> extracted_texts,
              invoked |-> 1, write |-> w.write]

\* stage2_ocr_extraction (extraction_rate, the quotient of the two counts
\* it stores, is left out)
stage2_ocr_extraction(c, img, text_boxes, ocr, wr) ==
    LET cached == load_stage_result(c, 2, img)
    IN  IF Present(cached) THEN StageRet(c, FALSE, cached.extracted_texts, 0)
        ELSE IF ocr.raises THEN StageRet(c, TRUE, <<>>, 1)
        ELSE LET extracted_texts == extract_from_boxes(img, text_boxes, ocr)
                 result == [total_boxes |-> Len(text_boxes),
                            successful_extractions |-> Len(extracted_texts),
                            extracted_texts |-> extracted_texts]
             IN  Saved(save_stage_result(c, 2, img, result, wr),
                       extracted_texts, 1)

\* A variant that reorders again when the cached ordering is empty, which
\* C37 must tell from stage3_reorder_text.
stage3_retrying_empty(c, img, extracted_texts, ro, rj, wr) ==
    LET cached == load_stage_result(c, 3, img)
        first == reorder_texts_with_image(extracted_texts, ro)
        w == save_stage_result(c, 3, img,
                               [total_texts |-> Len(extracted_texts),
                                reordered_count |-> Len(first.list),
                                reordered_texts |-> first.list,
                                success |-> Len(first.list) > 0,
                                method |-> "image_based_structured_output"], wr)
    IN  IF (IF Present(cached) THEN cached.reordered_texts # <<>> ELSE FALSE)
        THEN [cache |-> c, raised |-> FALSE, ret |-> cached.reordered_texts,
              invoked |-> 0, write |-> "none"]
        ELSE IF extracted_texts = <<>>
        THEN [cache |-> c, raised |-> FALSE, ret |-> <<>>, invoked |-> 0,
              write |-> "none"]
        ELSE IF first.raised
        THEN [cache |-> c, raised |-> TRUE, ret |-> <<>>, invoked |-> 2,
              write |-> "none"]
        ELSE [cache |-> w.cache, raised |-> w.raised, ret |-> first.list,
              invoked |-> 1, write |-> w.write]

\* stage3_reorder_text
stage3_reorder_text(c, img, extracted_texts, ro, rj, wr) ==
    LET cached == load_stage_result(c, 3, img)
        first == reorder_texts_with_image(extracted_texts, ro)
        second == reorder_with_metadata(extracted_texts, rj)
    IN  IF Present(cached) THEN StageRet(c, FALSE, cached.reordered_texts, 0)
        ELSE IF extracted_texts = <<>> THEN StageRet(c, FALSE, <<>>, 0)
        ELSE IF ~first.raised
        THEN LET result == [total_texts |-> Len(extracted_texts),
                            reordered_count |-> Len(first.list),
                            reordered_texts |-> first.list,
                            success |-> Len(first.list) > 0,
                            method |-> "image_based_structured_output"]
             IN  Saved(save_stage_result(c, 3, img, result, wr), first.list, 1)
        ELSE IF second.raised THEN StageRet(c, TRUE, <<>>, 2)
        ELSE LET result == [method |-> "fallback_text_only"] @@ second.result
             IN  Saved(save_stage_result(c, 3, img, result, wr),
                       result.reordered_texts, 2)


\* ocr_metadata: box_index -> stage-2 item (a later item replaces an earlier
\* one with the same box_index)
ocr_metadata(stage2_result) ==
    IF Present(stage2_result) /\ stage2_result.extracted_texts # <<>>
    THEN LET items == stage2_result.extracted_texts
         IN  [b \in {items[i].box_index : i \in 1..Len(items)} |->
                items[CHOOSE i \in 1..Len(items) :
                        /\ items[i].box_index = b
                        /\ \A k \in (i + 1)..Len(items) : items[k].box_index # b]]
    ELSE EmptyDict

\* A variant that trusts the LLM's answer, which C9 must tell from
\* joined_direction.
llm_direction(ocr_info, translation_item) ==
    Get(translation_item, "text_direction", "horizontal")

\* text_direction of a joined record: 'vertical' iff the OCR item says so
joined_direction(ocr_info, translation_item) ==
    IF Get(ocr_info, "vertical", FALSE) THEN "vertical" ELSE "horizontal"

\* the join of the translations onto the reordered items, by position
final_translations(reordered_texts, translated_texts, metadata) ==
    [i \in 1..Min(Len(reordered_texts), Len(translated_texts)) |->
        LET original_item == reordered_texts[i]
            translation_item == translated_texts[i]
            ocr_info == Get(metadata, original_item.original_index, EmptyDict)
        IN  [original_index |-> original_item.original_index,
             new_order |-> original_item.new_order,
             bbox |-> original_item.bbox,
             original |-> translation_item.original,
             translated |-> translation_item.translated,
             text_direction |-> joined_direction(ocr_info, translation_item),
             bubble_type |-> Get(translation_item, "bubble_type", "pure_white"),
             estimated_font_size |->
                Get(translation_item, "estimated_font_size", 16)]]

\* text_strings: the non-empty texts of the reordered items (or the
\* non-empty strings themselves)
text_strings(reordered_texts, isDict) ==
    LET nonEmpty(t) == t # EmptyText
    IN  IF isDict
        THEN SelectSeq([i \in 1..Len(reordered_texts) |-> reordered_texts[i].text],
                       nonEmpty)
        ELSE SelectSeq(reordered_texts, nonEmpty)

\* stage4_translate_with_history.  isDict: the items are dicts, not strings.
\* The method has no try: when the translator's call does not return
\* (tr.kind = "raise") the exception leaves it before anything is saved.
\* The ghost field 'info' records what the translator was given and gave.
stage4_translate_with_history(c, tm, hist, img, reordered_texts, isDict, tr, wr) ==
    LET cached == load_stage_result(c, 4, img)
        empty == [translated_texts |-> <<>>, new_terminology |-> DictTerms(EmptyDict),
                  success |-> FALSE]
        noCall == [called |-> FALSE, sent |-> 0, got |-> 0, history |-> <<>>,
                   calls |-> <<>>, success |-> FALSE]
        hit == [noCall EXCEPT !.success = Get(cached, "success", FALSE)]
        metadata == ocr_metadata(load_stage_result(c, 2, img))
        texts == text_strings(reordered_texts, isDict)
        answer == translate_texts_with_history(texts, get_all_terms(tm), hist, tr)
        result == IF isDict
                  THEN [answer EXCEPT !.translated_texts =
                          final_translations(reordered_texts, @, metadata)]
                  ELSE answer
        save_result == [total_texts |-> Len(reordered_texts),
                        translated_count |-> Len(result.translated_texts),
                        translated_texts |-> result.translated_texts,
                        new_terminology |-> result.new_terminology,
                        success |-> result.success,
                        history_context_used |-> Len(hist),
                        used_image_analysis |-> TRUE,
                        used_ocr_vertical_info |-> DOMAIN metadata # {}]
        info == [called |-> TRUE, sent |-> Len(texts), got |-> AdapterCount(answer),
                 history |-> hist, calls |-> translation_calls(texts, tr),
                 success |-> result.success]
    IN  IF Present(cached) THEN StageRet(c, FALSE, cached, 0) @@ [info |-> hit]
        ELSE IF reordered_texts = <<>> THEN StageRet(c, FALSE, empty, 0) @@ [info |-> noCall]
        ELSE IF texts = <<>> THEN StageRet(c, FALSE, empty, 0) @@ [info |-> noCall]
        ELSE IF tr.kind = "raise"
        THEN StageRet(c, TRUE, empty, 1) @@ [info |-> [noCall EXCEPT !.called = TRUE]]
        ELSE Saved(save_stage_result(c, 4, img, save_result, wr), result, 1)
             @@ [info |-> info]

\* stage5_update_terminology
stage5_update_terminology(tm, new_terminology, ioOk) ==
    IF TermsLen(new_terminology) = 0 THEN [tm |-> tm, raised |-> FALSE]
    ELSE LET r == update_terms(tm, new_terminology, ioOk)
         IN  [tm |-> r.tm, raised |-> r.raised]

\* {"success": False, "error": message}
Failure(error) == [success |-> FALSE, error |-> error]

\* What process_manga_with_history did: the stores after it, its return
\* value, and (ghost) how often each stage invoked its adapter, how many
\* texts stage 2 handed on (-1: not reached), what the translator got and
\* whether stage 4 reported success, and what became of each stage's write.
RunRet(c, tm, result, invoked, extracted, info, writes) ==
    [cache |-> c, tm |-> tm, result |-> result, invoked |-> invoked,
     extracted |-> extracted, info |-> info, writes |-> writes]

NoCall ==
    [called |-> FALSE, sent |-> 0, got |-> 0, history |-> <<>>, calls |-> <<>>,
     success |-> FALSE]

\* process_manga_with_history, given what the stage calls s1..s4 do (the
\* paths, the processing time and the per-stage counts of the returned dict
\* are left out; save_translation_result swallows its own errors): stages
\* 1..5 in order; an empty stage result ends the run with a failure (the
\* later stages are then not called), an exception is caught and reported
process_manga_with_history(tm, s1, s2, s3, s4, ioOk) ==
    LET s5 == stage5_update_terminology(tm, s4.ret.new_terminology, ioOk)
        i1 == <<s1.invoked, 0, 0, 0>>
        i2 == <<s1.invoked, s2.invoked, 0, 0>>
        i3 == <<s1.invoked, s2.invoked, s3.invoked, 0>>
        i4 == <<s1.invoked, s2.invoked, s3.invoked, s4.invoked>>
        w1 == <<s1.write, "none", "none", "none">>
        w2 == <<s1.write, s2.write, "none", "none">>
        w3 == <<s1.write, s2.write, s3.write, "none">>
        w4 == <<s1.write, s2.write, s3.write, s4.write>>
    IN  IF s1.raised
        THEN RunRet(s1.cache, tm, Failure("exception"), i1, -1, NoCall, w1)
        ELSE IF s1.ret = <<>>
        THEN RunRet(s1.cache, tm, Failure("No text boxes detected"), i1, -1,
                    NoCall, w1)
        ELSE IF s2.raised
        THEN RunRet(s2.cache, tm, Failure("exception"), i2, -1, NoCall, w2)
        ELSE IF s2.ret = <<>>
        THEN RunRet(s2.cache, tm, Failure("No text extracted"), i2, 0, NoCall, w2)
        ELSE IF s3.raised
        THEN RunRet(s3.cache, tm, Failure("exception"), i3, Len(s2.ret), NoCall, w3)
        ELSE IF s3.ret = <<>>
        THEN RunRet(s3.cache, tm, Failure("Text reordering failed"), i3,
                    Len(s2.ret), NoCall, w3)
        ELSE IF s4.raised
        THEN RunRet(s4.cache, tm, Failure("exception"), i4, Len(s2.ret),
                    s4.info, w4)
        ELSE IF ~s4.ret.success
        THEN RunRet(s4.cache, tm, Failure("Translation failed"), i4,
                    Len(s2.ret), s4.info, w4)
        ELSE IF s5.raised
        THEN RunRet(s4.cache, tm, Failure("exception"), i4, Len(s2.ret),
                    s4.info, w4)
        ELSE RunRet(s4.cache, s5.tm,
                    [success |-> TRUE,
                     text_boxes_count |-> Len(s1.ret),
                     extracted_count |-> Len(s2.ret),
                     reordered_count |-> Len(s3.ret),
                     translated_count |-> Len(s4.ret.translated_texts),
                     new_terminology_count |-> TermsLen(s4.ret.new_terminology),
                     translated_texts |-> s4.ret.translated_texts],
                    i4, Len(s2.ret), s4.info, w4)

\* The outcome of an adapter that is not called is not drawn.
Pick(outcomes, called) ==
    IF called THEN outcomes ELSE {CHOOSE o \in outcomes : TRUE}

\* The environment of a run: the outcomes its adapters and the writes of
\* its result files may have.  Env is an environment with a sound disk.
Env(det, ocr, ro, tr) ==
    [det |-> det, ocr |-> ocr, ro |-> ro, tr |-> tr, wr |-> {"ok"}]

AnyEnv == Env(DetOutcomes, OcrOutcomes, ReorderOutcomes, TransOutcomes)

\* Every way process_manga_with_history(image) can run in environment E,
\* stage by stage.
Runs4(tm, hist, img, E, s1, s2, s3) ==
    LET reached == /\ ~s1.raised /\ s1.ret # <<>>
                   /\ ~s2.raised /\ s2.ret # <<>>
                   /\ ~s3.raised /\ s3.ret # <<>>
        called == reached /\ ~Present(load_stage_result(s3.cache, 4, img))
    IN  {process_manga_with_history(tm, s1, s2, s3, s4, TRUE) :
            s4 \in {stage4_translate_with_history(s3.cache, tm, hist, img,
                                                  s3.ret, TRUE, o[1], o[2]) :
                        o \in Pick(E.tr, called) \X Pick(E.wr, called)}}

Runs3(tm, hist, img, E, s1, s2) ==
    LET reached == ~s1.raised /\ s1.ret # <<>> /\ ~s2.raised /\ s2.ret # <<>>
        called == reached /\ ~Present(load_stage_result(s2.cache, 3, img))
    IN  UNION {Runs4(tm, hist, img, E, s1, s2, s3) :
                  s3 \in {stage3_reorder_text(s2.cache, img, s2.ret, o[1], o[1], o[2]) :
                              o \in Pick(E.ro, called) \X Pick(E.wr, called)}}

Runs2(tm, hist, img, E, s1) ==
    LET reached == ~s1.raised /\ s1.ret # <<>>
        called == reached /\ ~Present(load_stage_result(s1.cache, 2, img))
    IN  UNION {Runs3(tm, hist, img, E, s1, s2) :
                  s2 \in {stage2_ocr_extraction(s1.cache, img, s1.ret, o[1], o[2]) :
                              o \in Pick(E.ocr, called) \X Pick(E.wr, called)}}

ProcessRuns(c, tm, hist, img, E) ==
    LET called == ~Present(load_stage_result(c, 1, img))
    IN  UNION {Runs2(tm, hist, img, E, s1) :
                  s1 \in {stage1_detect_text_boxes(c, img, o[1], o[2]) :
                              o \in Pick(E.det, called) \X Pick(E.wr, called)}}

\* --------------------------------------------------- batch_process_folder
\* A variant that keeps the oldest records, which C6 must tell from
\* truncate_history.
truncate_history_head(h) ==
    IF Len(h) > HISTORY_CAP THEN SubSeq(h, 1, HISTORY_CAP) ELSE h

\* self.translation_history[-100:] when it is longer than 100
truncate_history(h) ==
    IF Len(h) > HISTORY_CAP THEN SubSeq(h, Len(h) - HISTORY_CAP + 1, Len(h))
    ELSE h

\* the history after an image that succeeded with these translated_texts
extend_history(h, translated_texts) ==
    IF translated_texts # <<>> THEN truncate_history(h \o translated_texts)
    ELSE h

\* A variant that carries the history over into the next batch, which C7
\* must tell from reset_history.
keep_history(h) == h

\* self.translation_history = [] at the start of a batch
reset_history(h) == <<>>

\* The folders a batch may be given.  The detector and the OCR model are
\* deterministic, so what they do with a page is a property of the folder;
\* the answers of the LLM are not.
\*   none:   a folder without images
\*   gap:    a short folder whose second page has no text box; the first
\*           page has one box, the others have MaxBoxes
\*   faulty: a short folder: the detector raises on page 1, the OCR model
\*           raises on page 2 and finds no text on page 3
\*   long:   a long folder whose pages all have the same number of boxes and
\*           are all answered well
Folders ==
    {[name |-> "none", total_images |-> 0, boxes |-> 0],
     [name |-> "gap", total_images |-> NumImages, boxes |-> MaxBoxes],
     [name |-> "faulty", total_images |-> NumImages, boxes |-> MaxBoxes]}
    \cup {[name |-> "long", total_images |-> LongBatch, boxes |-> boxes] :
             boxes \in 1..MaxBoxes}

Boxes(n) == {[raises |-> FALSE, n |-> n]}

Reads(empty) == {[raises |-> FALSE, empty |-> empty]}

ShortReorders ==
    {[kind |-> "ok", shape |-> "reverse"], [kind |-> "ok", shape |-> "empty"]}

ShortTranslations ==
    {[kind |-> "structured", delta |-> 0, dir |-> "vertical", terms |-> OneTerm],
     [kind |-> "structured", delta |-> -1, dir |-> "horizontal", terms |-> <<>>],
     [kind |-> "fb_raise", delta |-> 0, dir |-> "horizontal", terms |-> <<>>],
     [kind |-> "fb_json", delta |-> 0, dir |-> "horizontal", terms |-> OneTerm]}

PageEnv(folder, img) ==
    IF folder.name = "long"
    THEN Env(Boxes(folder.boxes), Reads({}), {[kind |-> "ok", shape |-> "keep"]},
             {[kind |-> "structured", delta |-> 0, dir |-> "horizontal",
               terms |-> <<>>]})
    ELSE IF folder.name = "gap"
    THEN Env(Boxes(IF img = 2 THEN 0 ELSE IF img = 1 THEN 1 ELSE folder.boxes),
             Reads({}), ShortReorders, ShortTranslations)
    ELSE Env(IF img = 1 THEN {[raises |-> TRUE, n |-> 0]} ELSE Boxes(folder.boxes),
             IF img = 2 THEN {[raises |-> TRUE, empty |-> {}]}
             ELSE IF img = 3 THEN Reads(1..folder.boxes) ELSE Reads({}),
             ShortReorders, ShortTranslations)

\* ------------------------------------------------------------------- state
VARIABLES
    cache,      \* StageManager.results_dir: file name -> stored dict
    tm,         \* TerminologyManager: terminology_data and its file
    history,    \* FiveStagePipeline.translation_history
    batch,      \* batch_process_folder: the folder, the position in it,
                \* batch_results, and (ghost) the records translated so far
    last,       \* ghost: the operation performed last and what it returned
    pipeline    \* the FiveStagePipeline object: whether it exists, its
                \* 'initialized' flag and the component attributes it has

vars == <<cache, tm, history, batch, last, pipeline>>

\* The component attributes, in the order in which __init__ assigns them.
Components ==
    <<"detector", "ocr_extractor", "terminology_manager", "stage_manager",
      "gemini_client", "text_reorder", "text_translator">>

\* The adapters whose construction may fail: the detector and the OCR model
\* load model files, the Gemini client needs an API key.
Adapters == {"detector", "ocr_extractor", "gemini_client"}

\* no object has been constructed yet
NoPipeline == [exists |-> FALSE, initialized |-> FALSE, components |-> {}]

\* FiveStagePipeline.__init__ when the constructor of 'failing' raises
\* ("none": no constructor does): the attributes before it are assigned, the
\* exception is caught and printed, and 'initialized' stays False.
construct(failing) ==
    LET n == IF failing = "none" THEN Len(Components)
             ELSE (CHOOSE k \in 1..Len(Components) : Components[k] = failing) - 1
    IN  [raised |-> FALSE,
         object |-> [exists |-> TRUE, initialized |-> failing = "none",
                     components |-> {Components[k] : k \in 1..n}]]

\* the object a method is called on has these attributes
Has(attributes) == pipeline.exists /\ attributes \subseteq pipeline.components

\* no batch is running
Idle ==
    [pc |-> "idle", runs |-> 0, i |-> 0,
     folder |-> [name |-> "none", total_images |-> 0, boxes |-> 0],
     processed_images |-> <<>>, failed_images |-> <<>>, done |-> <<>>]

\* A new pipeline object in a fresh working directory.
Init ==
    /\ cache = EmptyDict
    /\ tm = NewTerminology
    /\ history = <<>>
    /\ batch = Idle
    /\ last = [op |-> "init"]
    /\ pipeline = construct("none").object

\* ------------------------------------------------ direct stage-method calls
\* the pages the direct calls work on
Pages == {Stem(1)}

Repeat(stage, img) ==
    /\ last.op = "stage"
    /\ last.stage = stage
    /\ last.img = img

CanCall(stage, img) == IF Repeat(stage, img) THEN last.n < MaxRepeat ELSE TRUE

\* ghost: the run of calls of one stage method on one image, in a row
StageLog(stage, img, given, r, info) ==
    IF Repeat(stage, img)
    THEN [last EXCEPT !.n = @ + 1, !.invoked = @ + r.invoked, !.ret = r.ret,
                      !.raised = r.raised, !.given = given, !.info = info]
    ELSE [op |-> "stage", stage |-> stage, img |-> img, n |-> 1,
          miss |-> ~Present(load_stage_result(cache, stage, img)),
          corrupt |-> Get(cache, FileName(img, stage), NoEntry) = Corrupt,
          firstWrite |-> r.write,
          invoked |-> r.invoked, firstInvoked |-> r.invoked,
          firstRaised |-> r.raised, first |-> r.ret,
          ret |-> r.ret, raised |-> r.raised, given |-> given, info |-> info]

Stage1Call(img, E) ==
    /\ Has({"stage_manager", "detector"})
    /\ CanCall(1, img)
    /\ LET called == ~Present(load_stage_result(cache, 1, img))
       IN  \E det \in Pick(E.det, called), wr \in Pick(E.wr, called) :
             LET r == stage1_detect_text_boxes(cache, img, det, wr)
             IN  /\ cache' = r.cache
                 /\ last' = StageLog(1, img, 0, r, NoCall)
    /\ UNCHANGED <<pipeline, tm, history, batch>>

\* the caller passes on what stage 1 stored
Stage2Call(img, E) ==
    /\ Has({"stage_manager", "ocr_extractor"})
    /\ CanCall(2, img)
    /\ Present(load_stage_result(cache, 1, img))
    /\ LET called == ~Present(load_stage_result(cache, 2, img))
           text_boxes == load_stage_result(cache, 1, img).text_boxes
       IN  \E ocr \in Pick(E.ocr, called), wr \in Pick(E.wr, called) :
             LET r == stage2_ocr_extraction(cache, img, text_boxes, ocr, wr)
             IN  /\ cache' = r.cache
                 /\ last' = StageLog(2, img, Len(text_boxes), r, NoCall)
    /\ UNCHANGED <<pipeline, tm, history, batch>>

\* an extracted item of an older format, without box_index
OldFormatItems(img) == <<[bbox |-> 1, text |-> Txt(img, 1)]>>

\* the caller passes on what stage 2 stored, or items of an older format
Stage3Call(img, E) ==
    /\ Has({"stage_manager", "text_reorder"})
    /\ CanCall(3, img)
    /\ Present(load_stage_result(cache, 2, img))
    /\ \E extracted_texts \in {load_stage_result(cache, 2, img).extracted_texts, OldFormatItems(img)} :
         LET called == /\ ~Present(load_stage_result(cache, 3, img))
                       /\ extracted_texts # <<>>
                       /\ ~PrepRaises(extracted_texts)
         IN  \E ro \in Pick(E.ro, called), wr \in Pick(E.wr, called) :
               LET r == stage3_reorder_text(cache, img, extracted_texts, ro, ro, wr)
               IN  /\ cache' = r.cache
                   /\ last' = StageLog(3, img, Len(extracted_texts), r, NoCall)
    /\ UNCHANGED <<pipeline, tm, history, batch>>

\* the caller passes on what stage 3 stored, as dicts or as plain strings
Stage4Call(img, E) ==
    /\ Has({"stage_manager", "terminology_manager", "text_translator"})
    /\ CanCall(4, img)
    /\ Present(load_stage_result(cache, 3, img))
    /\ \E isDict \in BOOLEAN :
         LET items == load_stage_result(cache, 3, img).reordered_texts
             reordered_texts == IF isDict THEN items
                                ELSE [i \in 1..Len(items) |-> items[i].text]
             called == /\ ~Present(load_stage_result(cache, 4, img))
                       /\ text_strings(reordered_texts, isDict) # <<>>
         IN  \E tr \in Pick(E.tr, called), wr \in Pick(E.wr, called) :
               LET r == stage4_translate_with_history(cache, tm, history, img,
                                                      reordered_texts, isDict, tr, wr)
               IN  /\ cache' = r.cache
                   /\ last' = StageLog(4, img, Len(reordered_texts), r, r.info)
                               @@ [isDict |-> isDict]
    /\ UNCHANGED <<pipeline, tm, history, batch>>

\* clear_cache(image_name)
ClearCache(img) ==
    /\ Has({"stage_manager"})
    /\ \E stage \in Stages : Present(load_stage_result(cache, stage, img))
    /\ LET r == clear_cache(cache, img)
       IN  /\ cache' = r.cache
           /\ last' = [op |-> "clear", img |-> img, ret |-> r.ret,
                       before |-> cache]
    /\ UNCHANGED <<pipeline, tm, history, batch>>

\* Stage-2 results as an extraction run with text_blocks stores them: every
\* box has text, and carries the detector's vertical flag.
Stage2Results(img) ==
    {[total_boxes |-> n, successful_extractions |-> n,
      extracted_texts |-> [i \in 1..n |->
          [box_index |-> i - 1, bbox |-> i, text |-> Txt(img, i),
           vertical |-> i \in v]]] :
        n \in 1..MaxBoxes, v \in {{}, {1}, 1..MaxBoxes}}

\* StageManager.save_stage_result(2, image_name, data), called directly for
\* a page that has no later result yet
SaveStage2(img) ==
    \E data \in Stage2Results(img) :
        /\ Has({"stage_manager"})
        /\ \A stage \in 2..4 : ~Present(load_stage_result(cache, stage, img))
        /\ cache' = save_stage_result(cache, 2, img, data, "ok").cache
        /\ last' = [op |-> "save", img |-> img, stage |-> 2]
        /\ UNCHANGED <<pipeline, tm, history, batch>>

\* Python's None
None == [none |-> TRUE]

\* process_manga_with_history(image_path) on its own, outside a batch: None
\* at once when the object is not initialized
ProcessManga(img, E) ==
    /\ pipeline.exists
    /\ IF ~pipeline.initialized
       THEN /\ last' = [op |-> "process_refused", img |-> img, result |-> None]
            /\ UNCHANGED <<cache, tm>>
       ELSE \E r \in ProcessRuns(cache, tm, history, img, E) :
              /\ cache' = r.cache
              /\ tm' = r.tm
              /\ last' = [op |-> "process", img |-> img, result |-> r.result,
                          invoked |-> r.invoked, extracted |-> r.extracted,
                          info |-> r.info, writes |-> r.writes]
    /\ UNCHANGED <<pipeline, history, batch>>

Next ==
    \E img \in Pages :
        \/ Stage1Call(img, AnyEnv)
        \/ Stage2Call(img, AnyEnv)
        \/ Stage3Call(img, AnyEnv)
        \/ Stage4Call(img, AnyEnv)
        \/ ProcessManga(img, AnyEnv)
        \/ ClearCache(img)
        \/ SaveStage2(img)

Spec == Init /\ [][Next]_vars

\* ------------------------------------------------- an unreliable results disk
\* A page that every adapter handles well, on a disk whose writes may fail.
DiskEnv ==
    [Env(Boxes(MaxBoxes), Reads({}), {[kind |-> "ok", shape |-> "keep"]},
         {[kind |-> "structured", delta |-> 0, dir |-> "horizontal",
           terms |-> <<>>]})
     EXCEPT !.wr = WriteOutcomes]

\* A result file is damaged behind the program's back (a crash in the middle
\* of a write, a disk error): its content no longer parses.
CorruptFile(img) ==
    /\ \E stage \in Stages :
         /\ Present(load_stage_result(cache, stage, img))
         /\ cache' = (FileName(img, stage) :> Corrupt) @@ cache
         /\ last' = [op |-> "corrupt", img |-> img, stage |-> stage]
    /\ UNCHANGED <<pipeline, tm, history, batch>>

NextDisk ==
    \E img \in Pages :
        \/ Stage1Call(img, DiskEnv)
        \/ Stage2Call(img, DiskEnv)
        \/ Stage3Call(img, DiskEnv)
        \/ Stage4Call(img, DiskEnv)
        \/ ProcessManga(img, DiskEnv)
        \/ CorruptFile(img)

SpecDisk == Init /\ [][NextDisk]_vars

\* ------------------------------------------------------ batch_process_folder
\* A new pipeline object, and a folder to process.
InitBatch ==
    /\ cache = EmptyDict
    /\ tm = NewTerminology
    /\ history = <<>>
    /\ \E folder \in Folders : batch = [Idle EXCEPT !.folder = folder]
    /\ last = [op |-> "init"]
    /\ pipeline = construct("none").object

\* The method up to its loop: an object that is not initialized refuses;
\* a folder without images is refused before anything is reset; otherwise
\* the history is emptied.
BatchStart ==
    /\ pipeline.exists
    /\ batch.pc # "running"
    /\ batch.runs < MaxRepeat
    /\ IF ~pipeline.initialized
       THEN /\ batch' = [batch EXCEPT !.pc = "done", !.runs = @ + 1]
            /\ history' = history
            /\ last' = [op |-> "batch_end", started |-> FALSE,
                        ret |-> Failure("System not initialized")]
       ELSE IF batch.folder.total_images = 0
       THEN /\ batch' = [batch EXCEPT !.pc = "done", !.runs = @ + 1]
            /\ history' = history
            /\ last' = [op |-> "batch_end", started |-> FALSE,
                        ret |-> Failure("No image files found")]
       ELSE /\ batch' = [Idle EXCEPT !.pc = "running", !.runs = batch.runs + 1,
                                     !.folder = batch.folder]
            /\ history' = reset_history(history)
            /\ last' = [op |-> "batch_start"]
    /\ UNCHANGED <<pipeline, cache, tm>>

\* A variant that forgets the images that failed, which C5 must tell from
\* record_result.
record_processed_only(b, img, result) ==
    IF result.success
    THEN [b EXCEPT !.i = img,
                   !.processed_images =
                       Append(@, [input_file |-> img, result |-> result]),
                   !.done = @ \o result.translated_texts]
    ELSE [b EXCEPT !.i = img]

\* what one pass of the loop leaves in batch_results
record_result(b, img, result) ==
    IF result.success
    THEN [b EXCEPT !.i = img,
                   !.processed_images =
                       Append(@, [input_file |-> img, result |-> result]),
                   !.done = @ \o result.translated_texts]
    ELSE [b EXCEPT !.i = img,
                   !.failed_images =
                       Append(@, [input_file |-> img, error |-> result.error])]

\* A variant that forgets the history when an image fails, which C17 must
\* tell from history_after.
history_lost_on_failure(h, result) ==
    IF result.success THEN extend_history(h, result.translated_texts) ELSE <<>>

\* the history after one pass of the loop
history_after(h, result) ==
    IF result.success THEN extend_history(h, result.translated_texts) ELSE h

\* One pass of the loop: the next image of the sorted list is processed.
BatchStep ==
    /\ batch.pc = "running"
    /\ batch.i < batch.folder.total_images
    /\ LET img == batch.i + 1
       IN  \E r \in ProcessRuns(cache, tm, history, Stem(img),
                                PageEnv(batch.folder, img)) :
             /\ cache' = r.cache
             /\ tm' = r.tm
             /\ batch' = record_result(batch, img, r.result)
             /\ history' = history_after(history, r.result)
             /\ last' = [op |-> "batch_step", img |-> img, result |-> r.result,
                         invoked |-> r.invoked, info |-> r.info,
                         before |-> batch.done, tm |-> tm, history |-> history]
    /\ UNCHANGED pipeline

\* After the loop: batch_results is returned.
BatchEnd ==
    /\ batch.pc = "running"
    /\ batch.i = batch.folder.total_images
    /\ batch' = [batch EXCEPT !.pc = "done"]
    /\ last' = [op |-> "batch_end", started |-> TRUE,
                ret |-> [success |-> TRUE,
                         total_images |-> batch.folder.total_images,
                         processed_images |-> batch.processed_images,
                         failed_images |-> batch.failed_images,
                         translation_history |-> history]]
    /\ UNCHANGED <<pipeline, cache, tm, history>>

\* clear_cache(image_name) between two batches
BatchClearCache ==
    /\ batch.pc = "done"
    /\ \E img \in Pages : ClearCache(img)

NextBatch == BatchStart \/ BatchStep \/ BatchEnd \/ BatchClearCache

SpecBatch == InitBatch /\ [][NextBatch]_vars

\* ------------------------------------------------------ the results directory
\* The names of the images whose results share the directory: page 1, an
\* image whose name starts with the name of page 1, and an image whose name
\* holds '_stage'.
ImageNames == {Stem(1), Stem(1) \o <<2>>, Stem(1) \o <<0, 2>>}

\* save_stage_result(stage, image_name, data): the results of an image are
\* stored stage by stage; what a result holds does not matter to the
\* directory.
SaveResult(img) ==
    /\ Has({"stage_manager"})
    /\ \E stage \in Stages :
         /\ ~stage_exists(cache, stage, img)
         /\ stage > 1 => stage_exists(cache, stage - 1, img)
         /\ cache' = save_stage_result(cache, stage, img, [success |-> TRUE], "ok").cache
         /\ last' = [op |-> "save", img |-> img, stage |-> stage]
    /\ UNCHANGED <<tm, history, batch, pipeline>>

\* clear_cache() without an image name
SweepCache ==
    /\ Has({"stage_manager"})
    /\ LET r == clear_cache(cache, <<>>)
       IN  /\ cache' = r.cache
           /\ last' = [op |-> "sweep", ret |-> r.ret, before |-> cache]
    /\ UNCHANGED <<tm, history, batch, pipeline>>

NextFiles ==
    \/ SweepCache
    \/ \E img \in ImageNames :
          \/ SaveResult(img)
          \/ ClearCache(img)

SpecFiles == Init /\ [][NextFiles]_vars

\* ------------------------------------------------- the store, key by key
\* Result dicts as the stage methods build them (JSON-native values: json.load
\* gives back what json.dump was given), with different sets of fields; the
\* last one carries a timestamp of its own.
StoreData ==
    {[text_boxes |-> <<1>>, total_boxes |-> 1],
     [extracted_texts |-> <<>>, successful_extractions |-> 0],
     [text_boxes |-> <<1, 2>>, timestamp |-> "old"]}

StoreImages == {Stem(1), Stem(1) \o <<2>>}

\* save_stage_result(stage, image_name, data) on any state of the directory
StoreResult(img) ==
    /\ Has({"stage_manager"})
    /\ \E stage \in 1..2, data \in StoreData, wr \in WriteOutcomes :
         LET r == save_stage_result(cache, stage, img, data, wr)
         IN  /\ cache' = r.cache
             /\ last' = [op |-> "store", img |-> img, stage |-> stage,
                         data |-> data, raised |-> r.raised,
                         over |-> stage_exists(cache, stage, img)]
    /\ UNCHANGED <<tm, history, batch, pipeline>>

NextStore ==
    \E img \in StoreImages :
        \/ StoreResult(img)
        \/ ClearCache(img)

SpecStore == Init /\ [][NextStore]_vars

\* ------------------------------------------- translate_texts_with_history
\* the longest history a caller hands to the translator
MaxHistory == 22

\* a history of n records, the k-th being the translation of text k
HistoryOf(n) ==
    [k \in 1..n |-> [original |-> <<k>>, translated |-> Tr(<<k>>)]]

\* A TextTranslator object and the history of its caller.
InitPrompt ==
    /\ cache = EmptyDict
    /\ tm = NewTerminology
    /\ history \in {HistoryOf(n) : n \in 0..MaxHistory}
    /\ batch = Idle
    /\ last = [op |-> "new"]
    /\ pipeline = construct("none").object

\* translate_texts_with_history(texts, terminology_dict, translation_history,
\* image_path), where the image exists or image_path is None
TranslateCall ==
    /\ Has({"text_translator"})
    /\ \E n \in 0..1, tr \in TransOutcomes, withImage \in BOOLEAN :
         LET texts == [i \in 1..n |-> Txt(Stem(1), i)]
         IN  last' = [op |-> "translate", texts |-> texts, visual |-> withImage,
                      result |-> translate_texts_with_history(
                                    texts, get_all_terms(tm), history, tr),
                      prompts |-> translation_prompts(texts, history, tr)]
    /\ UNCHANGED <<cache, tm, history, batch, pipeline>>

NextPrompt == TranslateCall

SpecPrompt == InitPrompt /\ [][NextPrompt]_vars

\* ------------------------------------------------------------ process_manga
\* process_manga(image_path): process_manga_with_history(image_path, None);
\* the None is the output path
process_manga(c, t, hist, img, E) == ProcessRuns(c, t, hist, img, E)

\* a page that is in none of the folders, read well by the detector and the
\* OCR model
CompatPage == Stem(NumImages + 1)

CompatEnv ==
    Env(Boxes(1), Reads({}), {[kind |-> "ok", shape |-> "keep"]}, ShortTranslations)

\* A new pipeline object, and a short folder for a batch.
InitCompat ==
    /\ cache = EmptyDict
    /\ tm = NewTerminology
    /\ history = <<>>
    /\ \E folder \in {f \in Folders : f.name # "long"} :
          batch = [Idle EXCEPT !.folder = folder]
    /\ last = [op |-> "init"]
    /\ pipeline = construct("none").object

\* process_manga(image_path), called while no batch is running
ProcessMangaCompat(img, E) ==
    /\ pipeline.exists
    /\ batch.pc # "running"
    /\ IF ~pipeline.initialized
       THEN /\ last' = [op |-> "process_manga_refused", img |-> img, result |-> None]
            /\ UNCHANGED <<cache, tm>>
       ELSE \E r \in process_manga(cache, tm, history, img, E) :
              /\ cache' = r.cache
              /\ tm' = r.tm
              /\ last' = [op |-> "process_manga", img |-> img, result |-> r.result,
                          invoked |-> r.invoked, info |-> r.info]
    /\ UNCHANGED <<pipeline, history, batch>>

NextCompat ==
    \/ BatchStart
    \/ BatchStep
    \/ BatchEnd
    \/ ProcessMangaCompat(CompatPage, CompatEnv)

SpecCompat == InitCompat /\ [][NextCompat]_vars

\* ------------------------------------------------- run/translate.py
\* ComicTranslator keeps one directory per stage under its output directory;
\* 'cache' holds their files here, under the same names as the results
\* directory of the pipeline.  The files carry no timestamp and no stage tag.
\* _check_existing_translation: the parsed stage-4 file, or None
check_existing_translation(c, img) ==
    LET stage4_file == FileName(img, 4)
    IN  IF stage4_file \notin DOMAIN c THEN None
        ELSE IF c[stage4_file] = Corrupt THEN None
        ELSE c[stage4_file]

\* A variant that uses an existing result even when forced, which C27 must
\* tell from use_existing.
use_existing_always(force, existing_result) ==
    existing_result # None /\ DOMAIN existing_result # {}

\* 'if not force:' and 'if existing_result:' of translate_image
use_existing(force, existing_result) ==
    /\ ~force
    /\ existing_result # None
    /\ DOMAIN existing_result # {}

\* _save_terminology_dict: the file is read again, every pair of
\* new_terminology replaces or extends its mapping, and it is written if
\* anything changed; new_terminology.items() of a list raises inside the
\* try, which is caught
save_terminology_dict(t, new_terminology) ==
    IF TermsLen(new_terminology) = 0 \/ new_terminology.shape # "dict" THEN t
    ELSE LET old == t.file.ja_to_zh
             new == new_terminology.map
             terminology == [k \in DOMAIN old \cup DOMAIN new |->
                                IF k \in DOMAIN new THEN new[k] ELSE old[k]]
         IN  IF terminology = old THEN t
             ELSE [ja_to_zh |-> terminology,
                   total_terms |-> Cardinality(DOMAIN terminology),
                   file |-> [exists |-> TRUE, ja_to_zh |-> terminology,
                             total_terms |-> Cardinality(DOMAIN terminology)]]

\* stage2_metadata of _stage4_translate: box_index -> item of the stage-2
\* file, if that file is there and parses
stage2_metadata(c, img) ==
    LET stage2_file == FileName(img, 2)
    IN  IF stage2_file \in DOMAIN c /\ Get(c, stage2_file, Corrupt) # Corrupt
        THEN LET items == c[stage2_file].extracted_texts
             IN  [b \in {items[i].box_index : i \in 1..Len(items)} |->
                    items[CHOOSE i \in 1..Len(items) :
                            /\ items[i].box_index = b
                            /\ \A k \in (i + 1)..Len(items) : items[k].box_index # b]]
        ELSE EmptyDict

\* What translate_image did: the files and the terminology after it, its
\* return value, (ghost) how often each stage invoked its adapter, and
\* (ghost) the stage-4 result it built (None if it built none).
FlowRet(c, t, ret, invoked, result) ==
    [cache |-> c, tm |-> t, ret |-> ret, invoked |-> invoked, result |-> result]

\* _stage4_translate: the texts with text and bbox are translated without a
\* history; no translation at all is a failure; the translations are joined
\* with the stage-2 metadata by position, new terms are saved, the stage-4
\* file is written (rendered_bbox, angle and was_rotated are left out)
flow_stage4(c, t, img, reordered_texts, tr, i3) ==
    LET metadata == stage2_metadata(c, img)
        hasText(item) == item.text # EmptyText
        items == SelectSeq(reordered_texts, hasText)
        texts == [k \in 1..Len(items) |-> items[k].text]
        answer == translate_texts_with_history(texts, t.ja_to_zh, <<>>, tr)
        i4 == [i3 EXCEPT ![4] = 1]
        translations == answer.translated_texts
        translated_texts ==
            [k \in 1..Len(translations) |->
                LET vertical == IF k <= Len(items)
                                THEN Get(Get(metadata, items[k].original_index,
                                             EmptyDict), "vertical", FALSE)
                                ELSE FALSE
                IN  [original |-> translations[k].original,
                     translated |-> translations[k].translated,
                     bbox |-> IF k <= Len(items) THEN items[k].bbox ELSE 0,
                     text_direction |-> IF vertical THEN "vertical" ELSE "horizontal",
                     bubble_type |-> Get(translations[k], "bubble_type", "pure_white"),
                     estimated_font_size |->
                        Get(translations[k], "estimated_font_size", 16)]]
        result == [translated_texts |-> translated_texts,
                   new_terminology |-> answer.new_terminology,
                   total_texts |-> Len(translated_texts),
                   success |-> TRUE]
    IN  IF texts = <<>> THEN FlowRet(c, t, FALSE, i3, None)
        ELSE IF translations = <<>> THEN FlowRet(c, t, FALSE, i4, None)
        ELSE FlowRet((FileName(img, 4) :> result) @@ c,
                     save_terminology_dict(t, answer.new_terminology),
                     TRUE, i4, result)

\* _stage3_reorder and what follows it
flow_stage3(c, t, img, extracted_texts, ro, tr) ==
    LET r == reorder_texts_with_image(extracted_texts, ro)
        i3 == <<1, 1, r.llm, 0>>
        result == [reordered_texts |-> r.list, total_texts |-> Len(r.list)]
    IN  IF r.raised \/ r.list = <<>> THEN FlowRet(c, t, FALSE, i3, None)
        ELSE flow_stage4((FileName(img, 3) :> result) @@ c, t, img, r.list, tr, i3)

\* _stage2_ocr and what follows it (the blocks of DetectorResult are
\* horizontal, as the items of extract_from_boxes say)
flow_stage2(c, t, img, text_boxes, ocr, ro, tr) ==
    LET result_data == extract_from_boxes(img, text_boxes, ocr)
        result == [extracted_texts |-> result_data, total_texts |-> Len(result_data)]
    IN  IF ocr.raises \/ result_data = <<>>
        THEN FlowRet(c, t, FALSE, <<1, 1, 0, 0>>, None)
        ELSE flow_stage3((FileName(img, 2) :> result) @@ c, t, img, result_data, ro, tr)

\* translate_image(image_path, force): False for an image that does not
\* exist; True at once when an existing result is used; otherwise the four
\* stages in order, each writing its file when it has a result, and False
\* as soon as one has none or raises
translate_image(c, t, img, force, exists, det, ocr, ro, tr) ==
    LET result == DetectorResult(det)
    IN  IF ~exists THEN FlowRet(c, t, FALSE, <<0, 0, 0, 0>>, None)
        ELSE IF use_existing(force, check_existing_translation(c, img))
        THEN FlowRet(c, t, TRUE, <<0, 0, 0, 0>>, None)
        ELSE IF det.raises \/ result.text_boxes = <<>>
        THEN FlowRet(c, t, FALSE, <<1, 0, 0, 0>>, None)
        ELSE flow_stage2((FileName(img, 1) :> result) @@ c, t, img,
                         result.text_boxes, ocr, ro, tr)

\* translate_image(image_path, force) on an image file that is there or not
TranslateImage(img, E) ==
    \E force \in BOOLEAN, exists \in BOOLEAN :
      \E det \in E.det, ocr \in E.ocr, ro \in E.ro, tr \in E.tr :
        LET r == translate_image(cache, tm, img, force, exists, det, ocr, ro, tr)
        IN  /\ cache' = r.cache
            /\ tm' = r.tm
            /\ last' = [op |-> "translate_image", img |-> img, force |-> force,
                        exists |-> exists, ret |-> r.ret, invoked |-> r.invoked,
                        result |-> r.result,
                        old |-> check_existing_translation(cache, img)]
            /\ UNCHANGED <<pipeline, history, batch>>

\* The adapters of a run: the detector raises, finds nothing or finds
\* MaxBoxes boxes; the OCR model raises, reads every box or reads nothing;
\* the reorder call answers, answers with an empty list or raises; the
\* translation call answers, answers with one translation too few, or
\* raises twice.
RunEnv ==
    Env({[raises |-> TRUE, n |-> 0], [raises |-> FALSE, n |-> 0],
         [raises |-> FALSE, n |-> MaxBoxes]},
        {[raises |-> TRUE, empty |-> {}], [raises |-> FALSE, empty |-> {}],
         [raises |-> FALSE, empty |-> 1..MaxBoxes]},
        {[kind |-> "ok", shape |-> "reverse"], [kind |-> "ok", shape |-> "empty"],
         [kind |-> "raise", shape |-> "keep"]},
        {[kind |-> "structured", delta |-> 0, dir |-> "vertical", terms |-> OneTerm],
         [kind |-> "structured", delta |-> -1, dir |-> "horizontal", terms |-> <<>>],
         [kind |-> "fb_raise", delta |-> 0, dir |-> "horizontal", terms |-> <<>>]})

NextRun == \E img \in Pages : TranslateImage(img, RunEnv)

SpecRun == Init /\ [][NextRun]_vars

\* ---------------------------------------------------------------- __init__
\* Before FiveStagePipeline(...) is called, in a fresh working directory.
InitNew ==
    /\ cache = EmptyDict
    /\ tm = NewTerminology
    /\ history = <<>>
    /\ batch = Idle
    /\ last = [op |-> "new"]
    /\ pipeline = NoPipeline

\* FiveStagePipeline(gemini_api_key)
Construct ==
    /\ ~pipeline.exists
    /\ \E failing \in Adapters \cup {"none"} :
         LET r == construct(failing)
         IN  /\ pipeline' = r.object
             /\ last' = [op |-> "construct", failing |-> failing,
                         raised |-> r.raised]
    /\ UNCHANGED <<cache, tm, history, batch>>

\* A method reads a component attribute that __init__ never assigned:
\* AttributeError.  Every stage method and clear_cache read stage_manager
\* first.
MissingAttribute ==
    /\ pipeline.exists
    /\ ~Has({"stage_manager"})
    /\ \E method \in {"stage1_detect_text_boxes", "stage2_ocr_extraction",
                       "stage3_reorder_text", "stage4_translate_with_history",
                       "clear_cache"} :
         last' = [op |-> "attribute_error", method |-> method]
    /\ UNCHANGED <<cache, tm, history, batch, pipeline>>

NextNew ==
    \/ Construct
    \/ MissingAttribute
    \/ BatchStart
    \/ \E img \in Pages :
          \/ Stage1Call(img, AnyEnv)
          \/ Stage2Call(img, AnyEnv)
          \/ ProcessManga(img, AnyEnv)
          \/ ClearCache(img)

SpecNew == InitNew /\ [][NextNew]_vars

\* ------------------------------------------------------- TerminologyManager
\* the dicts a caller hands to update_terms
TermDicts == UNION {[d -> Targets] : d \in SUBSET Sources}

AddTerm ==
    /\ \E japanese \in Sources, chinese \in Targets :
         LET r == add_term(tm, japanese, chinese)
         IN  /\ tm' = r.tm
             /\ last' = [op |-> "add_term", japanese |-> japanese,
                         chinese |-> chinese, ret |-> r.ret,
                         before |-> get_all_terms(tm)]
    /\ UNCHANGED <<pipeline, cache, history, batch>>

UpdateTerms ==
    /\ \E m \in TermDicts, ioOk \in BOOLEAN :
         LET r == update_terms(tm, DictTerms(m), ioOk)
         IN  /\ tm' = r.tm
             /\ last' = [op |-> "update_terms", given |-> m, ret |-> r.ret,
                         before |-> get_all_terms(tm), file |-> tm.file,
                         saves |-> r.saves, ioOk |-> ioOk]
    /\ UNCHANGED <<pipeline, cache, history, batch>>

RemoveTerm ==
    /\ \E japanese \in Sources, ioOk \in BOOLEAN :
         LET r == remove_term(tm, japanese, ioOk)
         IN  /\ tm' = r.tm
             /\ last' = [op |-> "remove_term", japanese |-> japanese,
                         ret |-> r.ret, before |-> get_all_terms(tm),
                         ioOk |-> ioOk]
    /\ UNCHANGED <<pipeline, cache, history, batch>>

NextTerm == AddTerm \/ UpdateTerms \/ RemoveTerm

SpecTerm == Init /\ [][NextTerm]_vars

\* ------------------------------------------------- reorder_texts_with_image
\* The extracted items a caller may hand over: any box index, any text, the
\* bbox of that box.
ExtractedItems ==
    {[box_index |-> b, bbox |-> b + 1, text |-> Txt(Stem(1), t), vertical |-> FALSE] :
        b \in 0..(MaxBoxes - 1), t \in 1..MaxBoxes}

ExtractedLists == UNION {[1..n -> ExtractedItems] : n \in 0..MaxBoxes}

\* A TextReorder object and a list to reorder.
InitReorder ==
    /\ cache = EmptyDict
    /\ tm = NewTerminology
    /\ history = <<>>
    /\ batch = Idle
    /\ \E extracted_texts \in ExtractedLists :
         last = [op |-> "input", extracted_texts |-> extracted_texts]
    /\ pipeline = construct("none").object

\* reorder_texts_with_image(extracted_texts, image_path)
ReorderCall ==
    /\ last.op = "input"
    /\ \E ro \in ReorderOutcomes :
         last' = [op |-> "reorder", given |-> last.extracted_texts, ro |-> ro,
                  r |-> reorder_texts_with_image(last.extracted_texts, ro)]
    /\ UNCHANGED <<pipeline, cache, tm, history, batch>>

NextReorder == ReorderCall

SpecReorder == InitReorder /\ [][NextReorder]_vars

\* ------------------------------------------------------ stage3_reorder_text
\* What a caller hands to stage 3: what extract_from_boxes returned for a
\* page with n boxes, or items of an older format.
Stage3Inputs(img) ==
    {extract_from_boxes(img, [i \in 1..n |-> i], [raises |-> FALSE, empty |-> {}]) :
        n \in 1..MaxBoxes}
    \cup {OldFormatItems(img)}

\* stage3_reorder_text(extracted_texts, image_path, image_name); ro is what
\* the LLM does on the call with the image, rj on the call without
Stage3Run(img) ==
    /\ Has({"stage_manager", "text_reorder"})
    /\ \E extracted_texts \in Stage3Inputs(img), ro \in ReorderAnswers,
          rj \in ReorderAnswers :
         LET r == stage3_reorder_text(cache, img, extracted_texts, ro, rj, "ok")
         IN  /\ cache' = r.cache
             /\ last' = [op |-> "stage3", img |-> img, given |-> extracted_texts,
                         ro |-> ro, rj |-> rj, ret |-> r.ret, raised |-> r.raised,
                         invoked |-> r.invoked,
                         miss |-> ~Present(load_stage_result(cache, 3, img))]
    /\ UNCHANGED <<pipeline, tm, history, batch>>

\* a page that the detector, the OCR model and the translator handle well
Stage3Env ==
    Env(Boxes(MaxBoxes), Reads({}), ReorderAnswers,
        {[kind |-> "structured", delta |-> 0, dir |-> "horizontal", terms |-> <<>>]})

NextStage3 ==
    \E img \in Pages :
        \/ Stage3Run(img)
        \/ ProcessManga(img, Stage3Env)
        \/ ClearCache(img)

SpecStage3 == Init /\ [][NextStage3]_vars

\* ------------------------------------------------ interrupted and resumed runs
\* The stage results of a run of process_manga_with_history that reaches its
\* stage-k call and gets past it: stages 1..k returned something non-empty
\* and did not raise.
Cut1(c, img, E) ==
    LET called == ~Present(load_stage_result(c, 1, img))
    IN  {s1 \in {stage1_detect_text_boxes(c, img, o[1], o[2]) :
                    o \in Pick(E.det, called) \X Pick(E.wr, called)} :
            ~s1.raised /\ s1.ret # <<>>}

Cut2(c, img, E) ==
    UNION {LET called == ~Present(load_stage_result(s1.cache, 2, img))
           IN  {s2 \in {stage2_ocr_extraction(s1.cache, img, s1.ret, o[1], o[2]) :
                           o \in Pick(E.ocr, called) \X Pick(E.wr, called)} :
                   ~s2.raised /\ s2.ret # <<>>} :
           s1 \in Cut1(c, img, E)}

Cut3(c, img, E) ==
    UNION {LET called == ~Present(load_stage_result(s2.cache, 3, img))
           IN  {s3 \in {stage3_reorder_text(s2.cache, img, s2.ret, o[1], o[1], o[2]) :
                           o \in Pick(E.ro, called) \X Pick(E.wr, called)} :
                   ~s3.raised /\ s3.ret # <<>>} :
           s2 \in Cut2(c, img, E)}

\* process_manga_with_history(image) is stopped from outside (the process is
\* killed, or the user interrupts it: 'except Exception' does not catch
\* that) while stage k + 1 is at work: the files of stages 1..k are written,
\* nothing else is.
InterruptedRun(img, E) ==
    /\ pipeline.exists /\ pipeline.initialized
    /\ \E k \in 1..3 :
         \E s \in (CASE k = 1 -> Cut1(cache, img, E)
                     [] k = 2 -> Cut2(cache, img, E)
                     [] k = 3 -> Cut3(cache, img, E)) :
            /\ cache' = s.cache
            /\ last' = [op |-> "interrupted", img |-> img, after |-> k]
    /\ UNCHANGED <<pipeline, tm, history, batch>>

NextResume ==
    \E img \in Pages :
        \/ InterruptedRun(img, AnyEnv)
        \/ ProcessManga(img, AnyEnv)
        \/ ClearCache(img)

SpecResume == Init /\ [][NextResume]_vars

\* the number k of leading stages 1..k whose results are cached
CachedPrefix(c, img) ==
    Cardinality({k \in 1..4 : \A j \in 1..k : Present(load_stage_result(c, j, img))})

\* The environment of the run that stored what the cache holds: the
\* detector, the OCR model and the reorder LLM answer as they must have
\* answered for the stage methods to store these entries.
ReplayEnv(c, img) ==
    LET c1 == load_stage_result(c, 1, img)
        c2 == load_stage_result(c, 2, img)
        c3 == load_stage_result(c, 3, img)
        stored(r, stage) == load_stage_result(r.cache, stage, img)
        det == IF ~Present(c1) THEN DetOutcomes
               ELSE {d \in DetOutcomes :
                       stored(stage1_detect_text_boxes(EmptyDict, img, d, "ok"), 1) = c1}
        ocr == IF ~Present(c2) THEN OcrOutcomes
               ELSE {o \in OcrOutcomes :
                       stored(stage2_ocr_extraction(EmptyDict, img, c1.text_boxes,
                                                    o, "ok"), 2) = c2}
        ro == IF ~Present(c3) THEN ReorderOutcomes
              ELSE {o \in ReorderOutcomes :
                      stored(stage3_reorder_text(EmptyDict, img, c2.extracted_texts,
                                                 o, o, "ok"), 3) = c3}
    IN  Env(det, ocr, ro, TransOutcomes)

\* ------------------------------------ batch_process_folder, stage by stage
\* A file name is the tuple of its character codes ('.' is 46).  A folder
\* lists at most MaxFiles files.
MaxFiles == 3

\* 'a.jpg', 'A.jpg', 'B.PNG', 'b.jpg', 'c.txt'
FolderNames ==
    {<<97, 46, 106, 112, 103>>, <<65, 46, 106, 112, 103>>,
     <<66, 46, 80, 78, 71>>, <<98, 46, 106, 112, 103>>,
     <<99, 46, 116, 120, 116>>}

\* str.lower()
lower(name) ==
    [k \in 1..Len(name) |->
        IF name[k] >= 65 /\ name[k] <= 90 THEN name[k] + 32 ELSE name[k]]

\* Python's '<' on two strings
StrLess(a, b) ==
    \E k \in 1..(Min(Len(a), Len(b)) + 1) :
        /\ \A j \in 1..(k - 1) : a[j] = b[j]
        /\ IF k > Len(a) THEN k <= Len(b)
           ELSE IF k > Len(b) THEN FALSE
           ELSE a[k] < b[k]

\* the position of the last dot of a name that has one after its first
\* character, else 0
LastDot(name) ==
    LET dots == {k \in 2..Len(name) : name[k] = 46}
    IN  IF dots = {} THEN 0 ELSE CHOOSE k \in dots : \A j \in dots : j <= k

\* Path.suffix and Path.stem
suffix(name) ==
    IF LastDot(name) = 0 THEN <<>> ELSE SubSeq(name, LastDot(name), Len(name))

NameStem(name) ==
    IF LastDot(name) = 0 THEN name ELSE SubSeq(name, 1, LastDot(name) - 1)

\* '.jpg' and '.png' of image_extensions (the other four do not occur in
\* FolderNames)
image_extensions == {<<46, 106, 112, 103>>, <<46, 112, 110, 103>>}

\* A variant that compares the names as they are, which C31 must tell from
\* sort_key.
sort_key_cased(x) == x

\* key=lambda x: x.name.lower()
sort_key(x) == lower(x)

\* list.sort(key=...) is stable: a name goes behind those whose key is not
\* greater than its own
RECURSIVE sort_files(_)
sort_files(files) ==
    IF files = <<>> THEN <<>>
    ELSE LET front == sort_files(SubSeq(files, 1, Len(files) - 1))
             x == files[Len(files)]
             k == Cardinality({j \in 1..Len(front) :
                                  ~StrLess(sort_key(x), sort_key(front[j]))})
         IN  SubSeq(front, 1, k) \o <<x>> \o SubSeq(front, k + 1, Len(front))

\* the image files of a listing, sorted
image_files(listing) ==
    LET isImage(name) == lower(suffix(name)) \in image_extensions
    IN  sort_files(SelectSeq(listing, isImage))

\* iterdir() lists the files of the folder in any order
Listings ==
    UNION {{l \in [1..n -> FolderNames] :
              \A p, q \in 1..n : p # q => l[p] # l[q]} : n \in 0..MaxFiles}

\* a stage that was not reached
NoStage == StageRet(EmptyDict, FALSE, <<>>, 0)

\* the adapters of the stage-by-stage batch: a page has one box or none, or
\* cannot be read by the detector
OrderEnv ==
    Env({[raises |-> FALSE, n |-> 1], [raises |-> FALSE, n |-> 0],
         [raises |-> TRUE, n |-> 0]},
        Reads({}), {[kind |-> "ok", shape |-> "keep"]},
        {[kind |-> "structured", delta |-> 0, dir |-> "horizontal",
          terms |-> OneTerm],
         [kind |-> "fb_raise", delta |-> 0, dir |-> "horizontal",
          terms |-> <<>>]})

\* A new pipeline object, and a folder to process.
InitOrder ==
    /\ cache = EmptyDict
    /\ tm = NewTerminology
    /\ history = <<>>
    /\ \E listing \in Listings :
         batch = [pc |-> "idle", listing |-> listing, image_files |-> <<>>,
                  i |-> 0, stage |-> 0, s1 |-> NoStage, s2 |-> NoStage,
                  s3 |-> NoStage, result |-> None,
                  processed_images |-> <<>>, failed_images |-> <<>>,
                  done |-> <<>>]
    /\ last = [op |-> "init", log |-> <<>>]
    /\ pipeline = construct("none").object

\* ghost: what the loop has done so far, in order
Logged(step) ==
    [op |-> "order",
     log |-> Append(last.log, [pos |-> batch.i + 1,
                               file |-> batch.image_files[batch.i + 1],
                               step |-> step])]

\* the image the loop is at
OrderImage == NameStem(batch.image_files[batch.i + 1])

\* batch_process_folder up to its loop
OrderStart ==
    /\ batch.pc = "idle"
    /\ LET files == image_files(batch.listing)
       IN  IF files = <<>>
           THEN /\ batch' = [batch EXCEPT !.pc = "done"]
                /\ history' = history
           ELSE /\ batch' = [batch EXCEPT !.pc = "running", !.image_files = files,
                                          !.stage = 1]
                /\ history' = reset_history(history)
    /\ UNCHANGED <<pipeline, cache, tm, last>>

\* process_manga_with_history up to the end of its stage-1 call
OrderStage1 ==
    /\ batch.pc = "running" /\ batch.stage = 1
    /\ \E det \in OrderEnv.det :
         LET s1 == stage1_detect_text_boxes(cache, OrderImage, det, "ok")
             ends == s1.raised \/ s1.ret = <<>>
             r == process_manga_with_history(tm, s1, NoStage, NoStage, NoStage, TRUE)
         IN  /\ cache' = s1.cache
             /\ batch' = [batch EXCEPT !.s1 = s1,
                                       !.stage = IF ends THEN 6 ELSE 2,
                                       !.result = IF ends THEN r.result ELSE None]
    /\ last' = Logged(1)
    /\ UNCHANGED <<pipeline, tm, history>>

\* from there to the end of its stage-2 call
OrderStage2 ==
    /\ batch.pc = "running" /\ batch.stage = 2
    /\ \E ocr \in OrderEnv.ocr :
         LET s2 == stage2_ocr_extraction(cache, OrderImage, batch.s1.ret, ocr, "ok")
             ends == s2.raised \/ s2.ret = <<>>
             r == process_manga_with_history(tm, batch.s1, s2, NoStage, NoStage, TRUE)
         IN  /\ cache' = s2.cache
             /\ batch' = [batch EXCEPT !.s2 = s2,
                                       !.stage = IF ends THEN 6 ELSE 3,
                                       !.result = IF ends THEN r.result ELSE None]
    /\ last' = Logged(2)
    /\ UNCHANGED <<pipeline, tm, history>>

\* from there to the end of its stage-3 call
OrderStage3 ==
    /\ batch.pc = "running" /\ batch.stage = 3
    /\ \E ro \in OrderEnv.ro :
         LET s3 == stage3_reorder_text(cache, OrderImage, batch.s2.ret, ro, ro, "ok")
             ends == s3.raised \/ s3.ret = <<>>
             r == process_manga_with_history(tm, batch.s1, batch.s2, s3, NoStage, TRUE)
         IN  /\ cache' = s3.cache
             /\ batch' = [batch EXCEPT !.s3 = s3,
                                       !.stage = IF ends THEN 6 ELSE 4,
                                       !.result = IF ends THEN r.result ELSE None]
    /\ last' = Logged(3)
    /\ UNCHANGED <<pipeline, tm, history>>

\* from there to its end: stage 4, and stage 5 when the translation
\* succeeded
OrderStage4 ==
    /\ batch.pc = "running" /\ batch.stage = 4
    /\ \E tr \in OrderEnv.tr :
         LET s4 == stage4_translate_with_history(cache, tm, history, OrderImage,
                                                 batch.s3.ret, TRUE, tr, "ok")
             r == process_manga_with_history(tm, batch.s1, batch.s2, batch.s3,
                                             s4, TRUE)
         IN  /\ cache' = r.cache
             /\ tm' = r.tm
             /\ batch' = [batch EXCEPT !.stage = 6, !.result = r.result]
             /\ last' = IF s4.raised \/ ~s4.ret.success THEN Logged(4)
                        ELSE [Logged(4) EXCEPT !.log =
                                Append(@, [pos |-> batch.i + 1,
                                           file |-> batch.image_files[batch.i + 1],
                                           step |-> 5])]
    /\ UNCHANGED <<pipeline, history>>

\* the rest of the loop body: the result is recorded, the history extended
OrderRecord ==
    /\ batch.pc = "running" /\ batch.stage = 6
    /\ batch' = [record_result(batch, batch.i + 1, batch.result) EXCEPT
                    !.stage = IF batch.i + 1 < Len(batch.image_files) THEN 1 ELSE 0,
                    !.pc = IF batch.i + 1 < Len(batch.image_files)
                           THEN "running" ELSE "done",
                    !.s1 = NoStage, !.s2 = NoStage, !.s3 = NoStage,
                    !.result = None]
    /\ history' = history_after(history, batch.result)
    /\ last' = Logged(6)
    /\ UNCHANGED <<pipeline, cache, tm>>

NextOrder ==
    \/ OrderStart
    \/ OrderStage1
    \/ OrderStage2
    \/ OrderStage3
    \/ OrderStage4
    \/ OrderRecord

SpecOrder == InitOrder /\ [][NextOrder]_vars


\* ------------------------------------------- the detector on its own
\* A detector, and what its model finds on a page.
InitDetect ==
    /\ cache = EmptyDict
    /\ tm = NewTerminology
    /\ history = <<>>
    /\ batch = Idle
    /\ \E blk_list \in BlockLists : last = [op |-> "blocks", blk_list |-> blk_list]
    /\ pipeline = construct("none").object

\* detect_with_metadata(image_path) and detect(image_path) on that page
DetectCall ==
    /\ last.op = "blocks"
    /\ last' = [op |-> "detect", blk_list |-> last.blk_list,
                result |-> detect_with_metadata(last.blk_list),
                text_boxes |-> detect(last.blk_list)]
    /\ UNCHANGED <<pipeline, cache, tm, history, batch>>

NextDetect == DetectCall

SpecDetect == InitDetect /\ [][NextDetect]_vars


\* ------------------------------------- the pipeline on blocks with metadata
\* The lists of blocks that are all big enough.
MetaBlockLists ==
    {l \in BlockLists : block_infos(l) # <<>> /\ Len(block_infos(l)) = Len(l)}

\* The adapters of a page whose detector result is computed from the blocks
\* of the detector model: every box is read, the reorder call keeps or
\* reverses the order, the translation call answers for every text.
MetaEnv ==
    Env({[raises |-> FALSE, n |-> Len(l), blk_list |-> l] : l \in MetaBlockLists},
        Reads({}),
        {[kind |-> "ok", shape |-> "keep"], [kind |-> "ok", shape |-> "reverse"]},
        {[kind |-> "structured", delta |-> 0, dir |-> "horizontal", terms |-> <<>>],
         [kind |-> "structured", delta |-> 0, dir |-> "vertical", terms |-> <<>>]})

NextMeta ==
    \E img \in Pages :
        \/ ProcessManga(img, MetaEnv)
        \/ ClearCache(img)

SpecMeta == Init /\ [][NextMeta]_vars


\* ------------------------------------- run/translate.py on several images
\* the LLM proposes another target for the source of OneTerm
OtherTerm == <<[japanese |-> "s1", chinese |-> "t2"]>>

\* The adapters of pages with one box that is read and kept in place; the
\* translation call proposes no term, OneTerm or OtherTerm.
TermsEnv ==
    Env(Boxes(1), Reads({}), {[kind |-> "ok", shape |-> "keep"]},
        {[kind |-> "structured", delta |-> 0, dir |-> "horizontal", terms |-> terms] :
            terms \in {<<>>, OneTerm, OtherTerm}})

NextRunTerms == \E img \in {Stem(k) : k \in 1..NumImages} : TranslateImage(img, TermsEnv)

SpecRunTerms == Init /\ [][NextRunTerms]_vars


\* --------------------------------------------- adapter calls that do not return
\* The translator's call does not return: an exception outside its try
\* blocks, or the call is abandoned.
TransAbandoned ==
    {[kind |-> "raise", delta |-> 0, dir |-> "horizontal", terms |-> <<>>]}

\* Every adapter may answer, or raise before it returns.
AbandonEnv ==
    Env({[raises |-> TRUE, n |-> 0], [raises |-> FALSE, n |-> MaxBoxes]},
        {[raises |-> TRUE, empty |-> {}], [raises |-> FALSE, empty |-> {}]},
        {[kind |-> "ok", shape |-> "keep"], [kind |-> "raise", shape |-> "keep"]},
        {[kind |-> "structured", delta |-> 0, dir |-> "horizontal", terms |-> OneTerm],
         [kind |-> "fb_raise", delta |-> 0, dir |-> "horizontal", terms |-> <<>>]}
        \cup TransAbandoned)

NextAbandon ==
    \E img \in Pages :
        \/ Stage1Call(img, AbandonEnv)
        \/ Stage2Call(img, AbandonEnv)
        \/ Stage3Call(img, AbandonEnv)
        \/ Stage4Call(img, AbandonEnv)
        \/ ProcessManga(img, AbandonEnv)
        \/ InterruptedRun(img, AbandonEnv)
        \/ ClearCache(img)

SpecAbandon == Init /\ [][NextAbandon]_vars


\* ------------------------------------------- stage 4 on items without text
\* Pages that the detector, the OCR model and the translator handle well;
\* the reorder LLM keeps the order, reverses it, or blanks the first text.
JoinEnv ==
    Env({[raises |-> FALSE, n |-> n] : n \in 1..MaxBoxes}, Reads({}),
        {[kind |-> "ok", shape |-> "keep"], [kind |-> "ok", shape |-> "reverse"]}
        \cup ReorderBlanks,
        {[kind |-> "structured", delta |-> 0, dir |-> "horizontal", terms |-> <<>>]})

NextJoin ==
    \E img \in {Stem(k) : k \in 1..NumImages} :
        \/ ProcessManga(img, JoinEnv)
        \/ ClearCache(img)

SpecJoin == Init /\ [][NextJoin]_vars


\* --------------------------------------------------------------- get_progress
\* f"stage{stage}_{name}" for the stages of stage_names
ProgressKey(stage) ==
    CASE stage = 1 -> "stage1_detection"
      [] stage = 2 -> "stage2_ocr"
      [] stage = 3 -> "stage3_reorder"
      [] stage = 4 -> "stage4_translate"
      [] stage = 5 -> "stage5_update"

\* A variant that takes the terminology update for done when the stage-4
\* result is there, which C39 must tell from stage_progress.
progress_inferring_update(c, img) ==
    [key \in {ProgressKey(stage) : stage \in Stages} |->
        LET stage == CHOOSE k \in Stages : ProgressKey(k) = key
        IN  stage_exists(c, IF stage = 5 THEN 4 ELSE stage, img)]

\* StageManager.get_progress
stage_progress(c, img) ==
    [key \in {ProgressKey(stage) : stage \in Stages} |->
        LET stage == CHOOSE k \in Stages : ProgressKey(k) = key
        IN  stage_exists(c, stage, img)]

\* FiveStagePipeline.get_progress ((n / 5) * 100 is 20 n)
get_progress(c, img) ==
    LET progress == stage_progress(c, img)
        completed_stages == Cardinality({key \in DOMAIN progress : progress[key]})
    IN  [completed_stages |-> completed_stages,
         total_stages |-> 5,
         progress_percentage |-> (completed_stages * 100) \div 5,
         stage_details |-> progress]

\* get_progress(image_name)
GetProgress(img) ==
    /\ Has({"stage_manager"})
    /\ last' = [op |-> "progress", img |-> img, ret |-> get_progress(cache, img)]
    /\ UNCHANGED <<pipeline, cache, tm, history, batch>>

NextProgress ==
    \E img \in Pages :
        \/ Stage1Call(img, AbandonEnv)
        \/ Stage2Call(img, AbandonEnv)
        \/ Stage3Call(img, AbandonEnv)
        \/ Stage4Call(img, AbandonEnv)
        \/ ProcessManga(img, AbandonEnv)
        \/ ClearCache(img)
        \/ GetProgress(img)

SpecProgress == Init /\ [][NextProgress]_vars


\* ================================================================ properties
\* the last call was a direct call of the method of this stage
StageCalled(stage) ==
    IF last.op = "stage" THEN last.stage = stage ELSE FALSE

\* the last call was a direct stage-4 call that reached the translator
Stage4Translated ==
    IF StageCalled(4) THEN last.info.called ELSE FALSE

\* the last operation was a process_manga_with_history run
Processed == last.op = "process"

\* ------------------------------------------------------------------------ C1
\* C1: whenever stage 4 reports success, it returns as many translated
\* records as it was given reordered texts; and when the adapter answers
\* with a number of translations other than the number of texts it was sent,
\* the orchestrator reports failure for the image.
C1_CountPreserved ==
    /\ IF StageCalled(4)
       THEN last.ret.success => Len(last.ret.translated_texts) = last.given
       ELSE TRUE
    /\ IF Processed
       THEN (last.info.called /\ last.info.got # last.info.sent)
                => ~last.result.success
       ELSE TRUE

\* ------------------------------------------------------------------------ C2
\* C2: when stage 4 fails (the adapter reports success=false or answers
\* with a mismatched count), no stage-4 cache entry is written: it is
\* still absent after the call.
C2_NoCacheOnFailure ==
    IF Stage4Translated
    THEN (~last.ret.success \/ last.info.got # last.info.sent)
            => ~Present(load_stage_result(cache, 4, last.img))
    ELSE TRUE

\* ------------------------------------------------------------------------ C3
\* C3 as stated: a stage method called twice in a row performs its
\* expensive computation exactly once in total.
C3_ComputedOnce ==
    IF last.op = "stage"
    THEN (last.n = 2 /\ last.miss) => last.invoked = 1
    ELSE TRUE

\* C3, amended: when the first of the calls in a row found no cache entry,
\* invoked its adapter and returned normally, the computation is performed
\* exactly once in total; every later call is served from the cache.
C3_ComputedOnceAfterSuccess ==
    IF last.op = "stage"
    THEN (last.n >= 2 /\ last.miss /\ last.firstInvoked > 0 /\ ~last.firstRaised)
            => (last.invoked = 1 /\ ~last.raised)
    ELSE TRUE

\* the case of C3: a second call in a row after a first call that computed
C3_Witness ==
    IF last.op = "stage"
    THEN /\ last.n = 2 /\ last.miss /\ last.firstInvoked = 1 /\ ~last.firstRaised
         /\ last.invoked = 1
         /\ last.stage = 4
    ELSE FALSE

\* ------------------------------------------------------------------------ C4
\* C4: when a stage method is called twice in a row, the second (cache-hit)
\* call returns the value the first (computing) call returned.
C4_SameValue ==
    IF last.op = "stage"
    THEN (last.n = 2 /\ last.miss /\ last.firstInvoked > 0 /\ ~last.firstRaised)
            => last.ret = last.first
    ELSE TRUE

\* ------------------------------------------------------------------------ C5
\* how often the image appears in processed_images and in failed_images
Listed(b, img) ==
    Cardinality({k \in 1..Len(b.processed_images) :
                    b.processed_images[k].input_file = img})
    + Cardinality({k \in 1..Len(b.failed_images) :
                    b.failed_images[k].input_file = img})

\* C5: a failed image never aborts the batch: while the batch runs, every
\* image handled so far is in exactly one of processed_images and
\* failed_images (a failed one with its error message), the batch ends only
\* after the last image of the folder, and the result it returns lists every
\* image of the folder.
C5_BatchNeverAborts ==
    /\ batch.pc = "running" =>
          /\ batch.i <= batch.folder.total_images
          /\ \A img \in 1..batch.i : Listed(batch, img) = 1
          /\ Len(batch.processed_images) + Len(batch.failed_images) = batch.i
          /\ \A k \in 1..Len(batch.failed_images) :
                "error" \in DOMAIN batch.failed_images[k]
          /\ \A k \in 1..Len(batch.processed_images) :
                batch.processed_images[k].result.success
    /\ IF last.op = "batch_end"
       THEN last.started =>
              /\ batch.i = batch.folder.total_images
              /\ \A img \in 1..batch.folder.total_images : Listed(batch, img) = 1
              /\ last.ret.processed_images = batch.processed_images
              /\ last.ret.failed_images = batch.failed_images
              /\ Len(last.ret.processed_images) + Len(last.ret.failed_images)
                    = last.ret.total_images
       ELSE TRUE

\* the case of C5: the second image of the folder detects no box, and the
\* batch ends with that image failed and all the others processed
C5_Witness ==
    IF last.op = "batch_end"
    THEN /\ last.started
         /\ batch.folder.name = "gap"
         /\ Len(last.ret.processed_images) = batch.folder.total_images - 1
         /\ last.ret.failed_images =
               <<[input_file |-> 2, error |-> "No text boxes detected"]>>
    ELSE FALSE

\* ------------------------------------------------------------------------ C6
\* the last n elements of a sequence, in order
LastN(seq, n) ==
    LET m == Min(n, Len(seq))
    IN  [k \in 1..m |-> seq[Len(seq) - m + k]]

\* C6: during a batch the history never holds more than 100 records, and it
\* is the most recent (up to 100) translated records of the images processed
\* successfully so far, in their original order.
C6_HistoryIsLast100 ==
    /\ Len(history) <= HISTORY_CAP
    /\ history = LastN(batch.done, HISTORY_CAP)

\* the case of C6: after a long batch of single-record images the history
\* holds exactly the last 100 of the records
C6_Witness ==
    /\ batch.pc = "done"
    /\ batch.folder.name = "long"
    /\ batch.folder.boxes = 1
    /\ Len(batch.processed_images) = LongBatch
    /\ Len(batch.done) = LongBatch
    /\ Len(history) = HISTORY_CAP
    /\ history = SubSeq(batch.done, LongBatch - HISTORY_CAP + 1, LongBatch)

\* ------------------------------------------------------------------------ C7
\* C7: the history passed to the translation call of an image is the capped
\* history of the images of the same batch processed before it: it is empty
\* when the batch starts, and holds no record of the image itself or of a
\* later one.
C7_HistoryPassed ==
    /\ last.op = "batch_start" => history = <<>>
    /\ IF last.op = "batch_step"
       THEN last.info.called =>
               last.info.history = LastN(last.before, HISTORY_CAP)
       ELSE TRUE

\* the case of C7: a translation call that is handed a history the cap has
\* cut
C7_Witness ==
    IF last.op = "batch_step"
    THEN /\ last.info.called
         /\ last.img > 1
         /\ Len(last.before) > HISTORY_CAP
         /\ Len(last.info.history) = HISTORY_CAP
    ELSE FALSE

\* ------------------------------------------------------------------------ C8
\* C8: add_term returns true and inserts iff the source was absent; it
\* returns false and leaves the stored target when the source is present,
\* whatever the new target; update_terms does the same for each of its items.
C8_FirstWriterWins ==
    /\ IF last.op = "add_term"
       THEN /\ last.ret = (last.japanese \notin DOMAIN last.before)
            /\ IF last.ret
               THEN get_all_terms(tm) =
                        (last.japanese :> last.chinese) @@ last.before
               ELSE get_all_terms(tm) = last.before
       ELSE TRUE
    /\ IF last.op = "update_terms"
       THEN /\ DOMAIN get_all_terms(tm) = DOMAIN last.before \cup DOMAIN last.given
            /\ \A k \in DOMAIN get_all_terms(tm) :
                  get_all_terms(tm)[k] =
                      IF k \in DOMAIN last.before THEN last.before[k]
                      ELSE last.given[k]
            /\ last.ret = Cardinality(DOMAIN last.given \ DOMAIN last.before)
       ELSE TRUE

\* the case of C8: a source that is present is added again with another target
C8_Witness ==
    IF last.op = "add_term"
    THEN /\ last.japanese \in DOMAIN last.before
         /\ last.before[last.japanese] # last.chinese
         /\ ~last.ret
    ELSE FALSE

\* ------------------------------------------------------------------------ C9
\* the stage-2 cache entry of the image marks this box as vertical
VerticalInCache(img, box_index) ==
    LET entry == load_stage_result(cache, 2, img)
    IN  IF Present(entry)
        THEN \E k \in 1..Len(entry.extracted_texts) :
                /\ entry.extracted_texts[k].box_index = box_index
                /\ entry.extracted_texts[k].vertical
        ELSE FALSE

DirectionsFromCache(img, records) ==
    \A k \in 1..Len(records) :
        records[k].text_direction =
            IF VerticalInCache(img, records[k].original_index) THEN "vertical"
            ELSE "horizontal"

\* C9: every record stage 4 produces from dictionary-shaped reordered texts
\* has text_direction 'vertical' iff the stage-2 cache entry with its
\* original_index as box_index is vertical, whatever the LLM answered.
C9_DirectionFromOcr ==
    /\ IF Stage4Translated
       THEN last.isDict => DirectionsFromCache(last.img, last.ret.translated_texts)
       ELSE TRUE
    /\ IF Processed
       THEN (last.info.called /\ last.result.success)
               => DirectionsFromCache(last.img, last.result.translated_texts)
       ELSE TRUE

\* the case of C9: stage 4 produced a horizontal and a vertical record
C9_Witness ==
    IF Stage4Translated
    THEN /\ last.isDict
         /\ \E k \in 1..Len(last.ret.translated_texts) :
               last.ret.translated_texts[k].text_direction = "vertical"
         /\ \E k \in 1..Len(last.ret.translated_texts) :
               last.ret.translated_texts[k].text_direction = "horizontal"
    ELSE FALSE

\* ----------------------------------------------------------------------- C10
\* C10: for an image whose stage 2 produced at least one text, whatever the
\* reorder LLM does, process_manga_with_history returns no failure caused by
\* stage 3.
C10_ReorderNeverFails ==
    IF Processed
    THEN (last.extracted > 0 /\ ~last.result.success)
            => last.result.error # "Text reordering failed"
    ELSE TRUE

\* ----------------------------------------------------------------------- C11
\* the last operation was a reorder_texts_with_image call whose LLM client
\* raised
ReorderFailed ==
    IF last.op = "reorder" THEN last.ro.kind = "raise" ELSE FALSE

\* C11: when the LLM client raises, reorder_texts_with_image returns, for an
\* input list of any size, exactly one entry per input item, in input order:
\* new_order is the item's position, and original_index, bbox and text are
\* copied from the item.
C11_FallbackIsIdentity ==
    ReorderFailed =>
        /\ ~last.r.raised
        /\ Len(last.r.list) = Len(last.given)
        /\ \A i \in 1..Len(last.given) :
             last.r.list[i] = [original_index |-> last.given[i].box_index,
                               new_order |-> i - 1,
                               bbox |-> last.given[i].bbox,
                               text |-> last.given[i].text]

\* several items, not in box order, went through the fallback
C11_Witness ==
    /\ ReorderFailed
    /\ Len(last.given) > 1
    /\ last.given[1].box_index > last.given[2].box_index
    /\ last.given[1].text # last.given[2].text
    /\ last.r.fellBack

Failed(write) == write \in {"refused", "torn"}

\* C13: cache write errors never propagate: when save_stage_result fails
\* while a stage persists its output, the stage still returns its result,
\* and the image continues through the remaining stages (here to success,
\* every adapter handling the page well).
C13_WriteErrorsIgnored ==
    /\ (IF last.op = "stage" THEN last.n = 1 /\ Failed(last.firstWrite) ELSE FALSE)
            => ~last.firstRaised
    /\ (IF Processed THEN \E k \in Stages \ {5} : Failed(last.writes[k]) ELSE FALSE)
            => last.result.success

\* ----------------------------------------------------------------------- C14
\* the result file of the stage is missing, or does not parse
Unreadable(stage, img) ==
    \/ FileName(img, stage) \notin DOMAIN cache
    \/ cache[FileName(img, stage)] = Corrupt

\* C14: load_stage_result(stage, image), for a stage in 1..5, returns None
\* for a missing and for a corrupt result file alike, and stage_exists
\* reports false for it; the stage method that finds a corrupt file treats
\* it as a cache miss and invokes its adapter again.
C14_LoadFailsSoft ==
    /\ \A img \in Pages, stage \in Stages :
         Unreadable(stage, img) =>
            /\ load_stage_result(cache, stage, img) = NoEntry
            /\ ~stage_exists(cache, stage, img)
    /\ (IF last.op = "stage" THEN last.n = 1 /\ last.corrupt ELSE FALSE)
            => last.miss /\ last.firstInvoked >= 1

\* a stage method found its result file corrupt, computed the result again
\* and stored it
C14_Witness ==
    /\ (IF last.op = "stage" THEN last.n = 1 /\ last.corrupt ELSE FALSE)
    /\ last.firstInvoked = 1
    /\ ~last.firstRaised
    /\ stage_exists(cache, last.stage, last.img)

\* ----------------------------------------------------------------------- C15
\* the image-grounded attempt of the last direct stage-4 call failed: the
\* structured call raised (a second call was made), or it answered with a
\* number of translations other than the number of texts
ImageAttemptFailed ==
    \/ Len(last.info.calls) > 1
    \/ last.info.got # last.info.sent

\* C15: translation failures follow the chain image-grounded -> text-only ->
\* identity: whenever the image-grounded attempt fails (count mismatch or
\* adapter exception) a text-only attempt is made next, and only when an
\* attempt has failed is the identity result (translated = original)
\* produced and the translation reported failed.
C15_FallbackChain ==
    Stage4Translated =>
        /\ ImageAttemptFailed =>
              /\ Len(last.info.calls) >= 2
              /\ last.info.calls[2] = "generate_content"
        /\ ~last.info.success =>
              /\ ImageAttemptFailed
              /\ \A k \in 1..Len(last.ret.translated_texts) :
                    last.ret.translated_texts[k].translated =
                        last.ret.translated_texts[k].original

\* ----------------------------------------------------------------------- C16
\* C16: if an adapter (detector, OCR, LLM client) fails to initialize,
\* constructing FiveStagePipeline fails at once: the error propagates out of
\* the constructor and no partially-initialized object is left.
C16_ConstructorFails ==
    (IF last.op = "construct" THEN last.failing # "none" ELSE FALSE)
        => last.raised /\ ~pipeline.exists

\* ----------------------------------------------------------------------- C17
\* the image of the last pass of the batch loop failed with this error
FailedWith(error) ==
    IF last.op = "batch_step"
    THEN (IF last.result.success THEN FALSE ELSE last.result.error = error)
    ELSE FALSE

\* C17: when stage 1 or stage 2 yields an empty result, the image is marked
\* failed and the remaining stages are skipped: no later stage's adapter is
\* invoked, and the terminology store and the translation history are left
\* as they were.
C17_EmptyStageStops ==
    /\ FailedWith("No text boxes detected") =>
          /\ last.invoked[2] = 0 /\ last.invoked[3] = 0 /\ last.invoked[4] = 0
          /\ tm = last.tm /\ history = last.history
          /\ batch.failed_images[Len(batch.failed_images)] =
                [input_file |-> last.img, error |-> "No text boxes detected"]
    /\ FailedWith("No text extracted") =>
          /\ last.invoked[3] = 0 /\ last.invoked[4] = 0
          /\ tm = last.tm /\ history = last.history
          /\ batch.failed_images[Len(batch.failed_images)] =
                [input_file |-> last.img, error |-> "No text extracted"]

\* a page without text boxes, after a page that left terms and history
C17_Witness ==
    /\ FailedWith("No text boxes detected")
    /\ last.invoked = <<1, 0, 0, 0>>
    /\ history # <<>>
    /\ tm.total_terms > 0

\* a page on which the OCR model read nothing
C17_WitnessStage2 ==
    /\ FailedWith("No text extracted")
    /\ last.invoked = <<1, 1, 0, 0>>

\* ----------------------------------------------------------------------- C18
\* the stage result files of an image
StageFiles(img) == {FileName(img, stage) : stage \in Stages}

C19_CountIsFilesRemoved ==
    last.op \in {"clear", "sweep"} =>
        last.ret = Cardinality(DOMAIN last.before \ DOMAIN cache)

\* ----------------------------------------------------------------------- C20
\* C20: after clear_cache() without an image name no stage cache entry
\* remains for any image, whatever the image names are.
C20_SweepClearsAll ==
    last.op = "sweep" =>
        \A img \in ImageNames, stage \in Stages : FileName(img, stage) \notin DOMAIN cache

\* ----------------------------------------------------------------------- C21
\* every cached result among stages 1..k of the image holds something, so
\* that a run gets as far as stage k + 1
CachedNonEmpty(c, img, k) ==
    /\ k >= 1 => load_stage_result(c, 1, img).text_boxes # <<>>
    /\ k >= 2 => load_stage_result(c, 2, img).extracted_texts # <<>>
    /\ k >= 3 => load_stage_result(c, 3, img).reordered_texts # <<>>

\* C21: when a previous run of an image stopped after stages 1..k (k < 4)
\* were cached, process_manga_with_history on that image invokes no adapter
\* for stages 1..k, does real work from stage k + 1 on, and ends as an
\* uninterrupted run ends whose adapters gave the answers that are cached:
\* with the same return value, cache and terminology.
C21_Resumes ==
    [][\A img \in Pages :
          LET k == CachedPrefix(cache, img)
          IN  ((IF last'.op = "process" THEN last'.img = img ELSE FALSE)
                  /\ k \in 1..3)
              => /\ \A j \in 1..k : last'.invoked[j] = 0
                 /\ CachedNonEmpty(cache, img, k) => last'.invoked[k + 1] >= 1
                 /\ \E r \in ProcessRuns(EmptyDict, tm, history, img,
                                         ReplayEnv(cache, img)) :
                       /\ r.result = last'.result
                       /\ r.cache = cache'
                       /\ r.tm = tm']_vars

\* a run that found stages 1 and 2 cached, worked from stage 3 on and
\* succeeded
C21_Witness ==
    /\ Processed
    /\ last.invoked = <<0, 0, 1, 1>>
    /\ last.result.success

\* ----------------------------------------------------------------------- C22
\* data with data['timestamp'] and data['stage'] set
Injected(data, stage) ==
    [k \in DOMAIN data \cup {"timestamp", "stage"} |->
        IF k = "timestamp" THEN Now ELSE IF k = "stage" THEN stage ELSE data[k]]

\* C22: after save_stage_result(stage, image, data) has returned,
\* load_stage_result(stage, image) is data with the timestamp and the stage
\* tag set, whatever the file held before (no field of an older entry is
\* left); the file of every other (stage, image) is as it was.
C22_SaveThenLoad ==
    [][last'.op = "store" =>
          LET filepath == FileName(last'.img, last'.stage)
          IN  /\ ~last'.raised =>
                    load_stage_result(cache', last'.stage, last'.img)
                        = Injected(last'.data, last'.stage)
              /\ DOMAIN cache' \ {filepath} = DOMAIN cache \ {filepath}
              /\ \A f \in DOMAIN cache \ {filepath} : cache'[f] = cache[f]]_vars

C22_Witness ==
    /\ last.op = "store"
    /\ last.over
    /\ ~last.raised
    /\ load_stage_result(cache, last.stage, last.img) = Injected(last.data, last.stage)
    /\ Cardinality(DOMAIN cache) > 1

\* ----------------------------------------------------------------------- C23
\* the document save_dictionary writes for the store as it is
Document(t) ==
    [exists |-> TRUE, ja_to_zh |-> t.ja_to_zh,
     total_terms |-> Cardinality(DOMAIN t.ja_to_zh)]

\* C23: update_terms(batch) returns the number of sources of the batch that
\* the store did not hold, inserts exactly those with the batch's targets,
\* leaves every mapping the store held as it was, and calls save_dictionary
\* once when that number is positive and not at all when it is 0 (the file
\* then stays as it was; a write that fails is reported and leaves it too).
C23_UpdateTerms ==
    IF last.op = "update_terms"
    THEN LET new == DOMAIN last.given \ DOMAIN last.before
         IN  /\ last.ret = Cardinality(new)
             /\ DOMAIN tm.ja_to_zh = DOMAIN last.before \cup new
             /\ \A k \in DOMAIN last.before : tm.ja_to_zh[k] = last.before[k]
             /\ \A k \in new : tm.ja_to_zh[k] = last.given[k]
             /\ last.saves = (IF last.ret > 0 THEN 1 ELSE 0)
             /\ tm.file = (IF last.ret > 0 /\ last.ioOk THEN Document(tm)
                           ELSE last.file)
    ELSE TRUE

\* a batch with a new source and a source the store holds with another target
C23_Witness ==
    IF last.op = "update_terms"
    THEN /\ last.ret = 1
         /\ last.saves = 1
         /\ \E k \in DOMAIN last.given \cap DOMAIN last.before :
               last.given[k] # last.before[k]
         /\ tm.file = Document(tm)
    ELSE FALSE

\* a batch of sources the store holds already: nothing is added or written
C23_WitnessNoSave ==
    IF last.op = "update_terms"
    THEN /\ last.given # EmptyDict
         /\ last.ret = 0
         /\ last.saves = 0
         /\ tm.file # Document(tm)
    ELSE FALSE

\* ----------------------------------------------------------------------- C24
\* C24: after add_term, update_terms or remove_term has changed the mapping
\* (and no write has failed), the document in the file holds the mapping of
\* the store, and its total_terms is the size of that mapping.
C24_FileFollowsStore ==
    IF /\ last.op \in {"add_term", "update_terms", "remove_term"}
       /\ (IF last.op = "add_term" THEN TRUE ELSE last.ioOk)
    THEN get_all_terms(tm) # last.before => tm.file = Document(tm)
    ELSE TRUE

\* ----------------------------------------------------------------------- C25
\* the records a prompt shows are the last n of the history, in order
ShowsLast(p, n) == p.shown = LastN(history, n)

\* C25 as stated: every prompt of a translation call shows at most the 10
\* most recent history records, in their order.
C25_TenInEveryPrompt ==
    IF last.op = "translate"
    THEN \A i \in 1..Len(last.prompts) : ShowsLast(last.prompts[i], 10)
    ELSE TRUE

\* C25, amended: the prompt of the structured call shows the 10 most recent
\* history records, the prompt of the fallback call the 20 most recent, each
\* in the order of the history, with or without an image.
C25_TenOrTwenty ==
    IF last.op = "translate"
    THEN \A i \in 1..Len(last.prompts) :
            IF last.prompts[i].prompt = "enhanced"
            THEN ShowsLast(last.prompts[i], 10)
            ELSE ShowsLast(last.prompts[i], 20)
    ELSE TRUE

\* the fallback path is taken with a history of more than 20 records
C25_Witness ==
    IF last.op = "translate"
    THEN /\ Len(history) > 20
         /\ Len(last.prompts) = 2
         /\ Len(last.prompts[1].shown) = 10
         /\ Len(last.prompts[2].shown) = 20
    ELSE FALSE

\* ----------------------------------------------------------------------- C26
\* C26: the translation call that process_manga issues gets an empty
\* history, whatever history the pipeline object holds.
C26_NoHistoryInProcessManga ==
    IF last.op = "process_manga"
    THEN last.info.called => last.info.history = <<>>
    ELSE TRUE

\* ----------------------------------------------------------------------- C27
\* translate_image was called on an image that exists
Translated == IF last.op = "translate_image" THEN last.exists ELSE FALSE

\* an unforced call that finds a stage-4 result invokes no adapter, changes
\* nothing and returns True
SkipsExisting ==
    [][(IF last'.op = "translate_image" THEN last'.exists ELSE FALSE)
          => ((~last'.force /\ last'.old # None)
                 => /\ last'.invoked = <<0, 0, 0, 0>>
                    /\ last'.ret
                    /\ cache' = cache
                    /\ tm' = tm)]_vars

C27_WitnessSkip ==
    /\ Translated
    /\ ~last.force
    /\ last.old # None
    /\ last.invoked = <<0, 0, 0, 0>>

\* ----------------------------------------------------------------------- C28
\* the last operation was a stage-3 call that found no cached result and
\* whose LLM call with the image was made and failed
ImageReorderFailed ==
    IF last.op = "stage3"
    THEN /\ last.miss
         /\ reorder_texts_with_image(last.given, last.ro).llm = 1
         /\ last.ro.kind # "ok"
    ELSE FALSE

\* the order stage 3 returned is the order of its input
IdentityOrder ==
    /\ Len(last.ret) = Len(last.given)
    /\ \A i \in 1..Len(last.ret) :
          /\ last.ret[i].original_index = last.given[i].box_index
          /\ last.ret[i].new_order = i - 1

\* C28: when the LLM call with the image fails, stage 3 calls the text-only
\* reorder next (a second TextReorder call), and the input order is used
\* only if the text-only LLM call fails too.
C28_TextOnlyBeforeIdentity ==
    ImageReorderFailed =>
        /\ last.invoked = 2
        /\ (IdentityOrder /\ Len(last.given) > 1) => last.rj.kind # "ok"

\* ----------------------------------------------------------------------- C29
\* the stage-3 entry the last stage-3 call stored
Stage3Stored == load_stage_result(cache, 3, last.img)

\* C29: the method field of a stage-3 entry is 'image_based_structured_output'
\* only when the LLM call with the image produced the stored order, and
\* 'fallback_text_only' when a fallback produced it.
C29_MethodIsTruthful ==
    IF (IF last.op = "stage3" THEN last.miss /\ ~last.raised ELSE FALSE)
    THEN LET imageProduced ==
                 /\ reorder_texts_with_image(last.given, last.ro).llm = 1
                 /\ last.ro.kind = "ok"
         IN  /\ Stage3Stored.method = "image_based_structured_output"
                   => imageProduced
             /\ ~imageProduced => Stage3Stored.method = "fallback_text_only"
    ELSE TRUE

\* ----------------------------------------------------------------------- C30
\* the new_order values of the items are 0..N-1, each once
IsPermutation(items) ==
    /\ {items[i].new_order : i \in 1..Len(items)} = 0..(Len(items) - 1)
    /\ \A i, j \in 1..Len(items) : items[i].new_order = items[j].new_order => i = j

\* C30: whatever the LLM answers, the stage-3 output that is cached and that
\* process_manga_with_history hands to stage 4 has the new_order values
\* 0..N-1, each once.
C30_NewOrderIsPermutation ==
    IF (IF Processed THEN last.img \in Pages /\ last.info.called ELSE FALSE)
    THEN IsPermutation(load_stage_result(cache, 3, last.img).reordered_texts)
    ELSE TRUE

\* ---------------------------------------------------------------------- C31
\* the names of the listing that are image files
ImagesListed ==
    {batch.listing[k] : k \in {j \in 1..Len(batch.listing) :
        lower(suffix(batch.listing[j])) \in image_extensions}}

\* C31: in a batch the images are processed one after another in ascending
\* case-insensitive order of their file names: the list the loop walks holds
\* every image file of the folder once, no name in it is smaller (compared
\* in lower case) than a name before it, and every step of an image (its
\* stages, its terminology update, its append to the history) comes after
\* every step of the images before it: an image starts with stage 1 right
\* after the image before it was recorded.
C31_OneAfterAnother ==
    batch.pc # "idle" =>
        /\ {batch.image_files[k] : k \in 1..Len(batch.image_files)} = ImagesListed
        /\ Len(batch.image_files) = Cardinality(ImagesListed)
        /\ \A p, q \in 1..Len(batch.image_files) :
              p < q => ~StrLess(lower(batch.image_files[q]),
                                lower(batch.image_files[p]))
        /\ \A p \in 1..Len(last.log) :
              /\ last.log[p].file = batch.image_files[last.log[p].pos]
              /\ p = 1 => last.log[p].pos = 1 /\ last.log[p].step = 1
              /\ p > 1 =>
                   IF last.log[p - 1].step = 6
                   THEN /\ last.log[p].pos = last.log[p - 1].pos + 1
                        /\ last.log[p].step = 1
                   ELSE /\ last.log[p].pos = last.log[p - 1].pos
                        /\ last.log[p].step > last.log[p - 1].step
        /\ \A p, q \in 1..Len(last.log) :
              p < q => ~StrLess(lower(last.log[q].file), lower(last.log[p].file))

\* A folder that lists 'B.PNG' before 'a.jpg' has been processed: both
\* images went through all five stages, 'a.jpg' first.
C31_Witness ==
    /\ batch.pc = "done"
    /\ batch.listing = <<<<66, 46, 80, 78, 71>>, <<99, 46, 116, 120, 116>>,
                         <<97, 46, 106, 112, 103>>>>
    /\ Len(batch.processed_images) = 2
    /\ last.log[1].file = <<97, 46, 106, 112, 103>>
    /\ \E p \in 1..Len(last.log) : last.log[p].pos = 2 /\ last.log[p].step = 5


\* ---------------------------------------------------------------------- C32
\* boxes <<x, y, w, h>> in reading order: a box is below the one before it,
\* or at the same height and not to the right of it
TopDownRightLeft(boxes) ==
    \A p, q \in 1..Len(boxes) :
        p < q => \/ boxes[p][2] < boxes[q][2]
                 \/ boxes[p][2] = boxes[q][2] /\ boxes[p][1] >= boxes[q][1]

\* C32: detection returns its boxes sorted top to bottom and, among boxes
\* with the same top coordinate, right to left (larger x first), and no box
\* narrower or lower than 5 pixels is in the result.
C32_TopDownRightLeft ==
    last.op = "detect" =>
        /\ TopDownRightLeft(last.result.text_boxes)
        /\ TopDownRightLeft(last.text_boxes)
        /\ \A i \in 1..Len(last.result.text_boxes) :
              /\ last.result.text_boxes[i][3] >= 5
              /\ last.result.text_boxes[i][4] >= 5
              /\ last.text_boxes[i] = last.result.text_boxes[i]


\* ---------------------------------------------------------------------- C33
\* the stage-k entry of the cache for img
Stored(stage, img) == load_stage_result(cache, stage, img)

\* the stage-4 records of img that belong to the box with this box_index
RecordsOf(img, box_index) ==
    LET records == Stored(4, img).translated_texts
    IN  {records[k] : k \in {j \in 1..Len(records) :
                                records[j].original_index = box_index}}

\* C33: through the orchestrator the detector's rotation and direction
\* metadata reaches extraction: the stage-2 entry of a box that detection
\* reports as vertical has vertical = true, the entry of a box with an angle
\* other than 0 has that angle, and the stage-4 record of a vertical box has
\* text_direction 'vertical'.  (The orchestrator hands the boxes to
\* stage 2 in the order of the detector result, so box_index k is the k-th
\* block of that result.)
C33_MetadataReachesExtraction ==
    \A img \in Pages :
        Present(Stored(1, img)) /\ Present(Stored(2, img)) =>
            \A i \in 1..Len(Stored(2, img).extracted_texts) :
                LET entry == Stored(2, img).extracted_texts[i]
                    block == Stored(1, img).text_blocks[entry.box_index + 1]
                IN  /\ block.vertical => entry.vertical
                    /\ block.angle # 0 => entry.angle = block.angle
                    /\ block.vertical /\ Present(Stored(4, img)) =>
                         \A record \in RecordsOf(img, entry.box_index) :
                             record.text_direction = "vertical"


\* ---------------------------------------------------------------------- C34
\* the stage-2 entries of img for the box with this box_index
EntriesOf(img, box_index) ==
    LET items == Stored(2, img).extracted_texts
    IN  {items[k] : k \in {j \in 1..Len(items) : items[j].box_index = box_index}}

\* C34: every stage-4 record carries rendered_bbox, angle and was_rotated,
\* equal to those of the stage-2 entry whose box_index is the record's
\* original_index.
C34_RotationReachesRecords ==
    \A img \in Pages :
        Present(Stored(4, img)) /\ Present(Stored(2, img)) =>
            \A k \in 1..Len(Stored(4, img).translated_texts) :
                LET record == Stored(4, img).translated_texts[k]
                IN  \A entry \in EntriesOf(img, record.original_index) :
                        /\ {"rendered_bbox", "angle", "was_rotated"}
                               \subseteq DOMAIN record
                        /\ record.rendered_bbox = entry.rendered_bbox
                        /\ record.angle = entry.angle
                        /\ record.was_rotated = entry.was_rotated


\* ---------------------------------------------------------------------- C35
\* C35: in the run/translate.py flow a source term that is in
\* terminology_dict.json keeps its target when a later image's
\* new_terminology has the same source with another target (first writer
\* wins): no call of translate_image changes or removes a stored mapping.
C35_RunKeepsFirstTarget ==
    [][\A source \in DOMAIN tm.file.ja_to_zh :
          /\ source \in DOMAIN tm'.file.ja_to_zh
          /\ tm'.file.ja_to_zh[source] = tm.file.ja_to_zh[source]]_vars


\* ---------------------------------------------------------------------- C36
\* the stage-k result file of img is the same before and after the step
SameEntry(stage, img) ==
    Get(cache', FileName(img, stage), NoEntry) = Get(cache, FileName(img, stage), NoEntry)

\* C36: a stage whose adapter call raises, or is abandoned, before it
\* returns persists nothing: a stage method that raises leaves every result
\* file and the terminology store as they were; a run that ends with an
\* exception has changed only the files of the stages that returned, and no
\* term; a run that is stopped while stage k + 1 is at work has not touched
\* the files of stages k + 1 to 4, nor the terminology store.
C36_NothingPersistedOnRaise ==
    [][/\ last'.op = "stage" =>
            IF last'.raised THEN cache' = cache /\ tm' = tm ELSE TRUE
       /\ last'.op = "process" =>
            IF last'.result # None /\ ~last'.result.success
            THEN IF last'.result.error = "exception"
                 THEN /\ tm' = tm
                      /\ \A stage \in 1..4 :
                            SameEntry(stage, last'.img) \/ last'.writes[stage] = "ok"
                 ELSE TRUE
            ELSE TRUE
       /\ last'.op = "interrupted" =>
            /\ tm' = tm
            /\ \A stage \in 1..4 :
                  IF stage > last'.after THEN SameEntry(stage, last'.img) ELSE TRUE]_vars

\* A run got to stage 4 on a page without a stage-4 file, and the
\* translator's call did not return: the run ended with an exception, the
\* files of stages 1 to 3 are there and no stage-4 file is.
C36_Witness ==
    /\ last.op = "process"
    /\ last.invoked = <<1, 1, 1, 1>>
    /\ IF last.result # None /\ ~last.result.success
       THEN last.result.error = "exception"
       ELSE FALSE
    /\ \A stage \in 1..3 : Present(load_stage_result(cache, stage, last.img))
    /\ ~Present(load_stage_result(cache, 4, last.img))


\* ---------------------------------------------------------------------- C37
\* The failure that cache c holds for img ("none": it holds none): the
\* results of the stages before stage k are stored and not empty, and the
\* stored result of stage k is empty (k <= 3) or says success = false.
StoredFailure(c, img) ==
    LET e1 == load_stage_result(c, 1, img)
        e2 == load_stage_result(c, 2, img)
        e3 == load_stage_result(c, 3, img)
        e4 == load_stage_result(c, 4, img)
    IN  IF ~Present(e1) THEN "none"
        ELSE IF e1.text_boxes = <<>> THEN "No text boxes detected"
        ELSE IF ~Present(e2) THEN "none"
        ELSE IF e2.extracted_texts = <<>> THEN "No text extracted"
        ELSE IF ~Present(e3) THEN "none"
        ELSE IF e3.reordered_texts = <<>> THEN "Text reordering failed"
        ELSE IF ~Present(e4) THEN "none"
        ELSE IF ~e4.success THEN "Translation failed"
        ELSE "none"

\* C37: failures are replayed from the cache: a run of
\* process_manga_with_history on an image for which the cache holds an
\* empty stage-1 or stage-2 result, an empty stage-3 ordering or a stage-4
\* result with success = false returns that failure, invokes no adapter and
\* changes neither the cache nor the terminology store; right after the run
\* that stored the failure it returns what that run returned.
C37_FailureReplayed ==
    [][last'.op = "process" =>
         IF StoredFailure(cache, last'.img) # "none"
         THEN /\ last'.result = Failure(StoredFailure(cache, last'.img))
              /\ last'.invoked = <<0, 0, 0, 0>>
              /\ cache' = cache
              /\ tm' = tm
              /\ IF last.op = "process"
                 THEN last.img = last'.img => last'.result = last.result
                 ELSE TRUE
         ELSE TRUE]_vars

\* a stored stage-4 failure was replayed: the run invoked no adapter and
\* returned 'Translation failed'
C37_Witness ==
    /\ last.op = "process"
    /\ last.invoked = <<0, 0, 0, 0>>
    /\ last.result = Failure("Translation failed")
    /\ StoredFailure(cache, last.img) = "Translation failed"


\* ---------------------------------------------------------------------- C38
\* C38: in stage 4 the record built for reordered_texts[i] carries the
\* translation of the text of reordered_texts[i] itself, also when entries
\* with an empty text are left out of the list sent to the translator: in
\* every stored stage-4 result the i-th record, which has the original_index
\* of the i-th reordered item, has that item's text as its original and the
\* translation of that text.
C38_RecordHasOwnTranslation ==
    \A k \in 1..NumImages :
        Present(Stored(4, Stem(k))) /\ Present(Stored(3, Stem(k))) =>
            LET records == Stored(4, Stem(k)).translated_texts
                reordered == Stored(3, Stem(k)).reordered_texts
            IN  \A i \in 1..Len(records) :
                    /\ i <= Len(reordered)
                    /\ records[i].original_index = reordered[i].original_index
                    /\ records[i].original = reordered[i].text
                    /\ records[i].translated = Tr(reordered[i].text)


\* ---------------------------------------------------------------------- C39
\* C39: no operation of FiveStagePipeline writes a stage-5 cache entry:
\* starting from an empty cache, after any sequence of stage calls, runs and
\* cache clears there is no stage-5 file, and get_progress(image) reports
\* stage5_update as false, at most 4 completed stages and at most 80
\* percent, also for an image whose five stages all completed.
C39_ProgressAtMost80 ==
    /\ \A img \in Pages :
          /\ ~Present(load_stage_result(cache, 5, img))
          /\ ~get_progress(cache, img).stage_details["stage5_update"]
          /\ get_progress(cache, img).completed_stages <= 4
          /\ get_progress(cache, img).progress_percentage <= 80
    /\ IF last.op = "progress"
       THEN /\ last.ret = get_progress(cache, last.img)
            /\ ~last.ret.stage_details["stage5_update"]
            /\ last.ret.completed_stages <= 4
            /\ last.ret.progress_percentage <= 80
       ELSE TRUE

\* get_progress is asked about an image whose run succeeded and whose
\* stage 5 added a term to the terminology store: it says 4 stages, 80
\* percent
C39_Witness ==
    /\ last.op = "progress"
    /\ last.ret.completed_stages = 4
    /\ last.ret.progress_percentage = 80
    /\ IF Present(load_stage_result(cache, 4, last.img))
       THEN load_stage_result(cache, 4, last.img).success
       ELSE FALSE
    /\ DOMAIN get_all_terms(tm) # {}


====
